---- MODULE Spec2Model ----
(***************************************************************************)
(* Model of the simulation engine of the OS resource scheduling simulator. *)
(*                                                                         *)
(* Memory replacement engine (lib/algorithms/memory.ts, clock variant):    *)
(*   simulateLRU  - least recently used, with an explicit recency order    *)
(*   simulateARB  - second chance / clock with one reference bit per frame *)
(*                                                                         *)
(* Disk scheduling engine (lib/algorithms/disk.ts):                        *)
(*   simulateLOOK, simulateCSCAN - straight-line functions, modelled as    *)
(*   operators that compute what the code computes, applied by one action  *)
(*   per call (specification DiskSpec).                                    *)
(*                                                                         *)
(* Input boundary (lib/validators.ts, MemoryTab, DiskTab):                 *)
(*   validateMemoryInput, validateDiskInput - operators over texts,        *)
(*   applied by one action per call (specification ValidateSpec);          *)
(*   the Run and Reset handlers of the two tabs (specification TabSpec).   *)
(*   CallSpec is a sequence of engine calls, one after the other.          *)
(*                                                                         *)
(* Replay (DiskVisualization, MemoryVisualization):                        *)
(*   the buttons, the slider, the play/pause effect and the animate        *)
(*   callback of the two components (specification ReplaySpec).            *)
(*                                                                         *)
(* One run of Spec is one call of simulateLRU or simulateARB.  The         *)
(* for loop over the reference string is modelled one iteration per        *)
(* action; the victim search of simulateARB (a while loop) is modelled one *)
(* loop iteration per action, so that its length can be observed.          *)
(*                                                                         *)
(* JavaScript arrays indexed by frame number (frames, refBits) are         *)
(* functions over 0 .. frameCount-1, so frame indices keep the values they *)
(* have in the source.  refString, orderOfUse and result.steps are TLA+    *)
(* sequences (position 1 is the source's index 0).  An optional field      *)
(* (replacedFrame?) is << >> when absent and <<v>> when set.               *)
(***************************************************************************)
EXTENDS Integers, Sequences, FiniteSets, TLC

\* ---------------------------------------------------------------- bounds
\* Largest number of frames of a workload.
MaxFrames == 3
\* Page numbers of the enumerated workloads are 0 .. MaxPage.
MaxPage == 3
\* Longest enumerated reference string.
MaxRefs == 6
\* Largest number of cylinders of a disk workload.
MaxCylinders == 5
\* Longest enumerated request queue.
MaxRequests == 4
\* longest reference string text, in characters
MaxRefText == 4
\* longest request queue text, in characters
MaxQueueText == 3
\* number of engine calls made one after the other
MaxCalls == 3

\* ------------------------------------------------------ program constants
\* The sentinel that marks an unoccupied frame: new Array(frameCount).fill(-1).
EMPTY == -1
\* The result of Array.prototype.indexOf when the element is not found.
NOT_FOUND == -1

VARIABLES
    alg,           \* which engine function this run is a call of: "LRU", "ARB",
                   \* "LOOK" or "CSCAN"
    frameCount,    \* parameter frameCount
    refString,     \* parameter refString
    pc,            \* "loop": at the head of the for loop; "sweep": inside the
                   \* while loop of simulateARB; "call": a disk function is
                   \* about to run; "done": the function returned
    i,             \* the for loop's index i (number of references processed)
    frames,        \* local frames
    orderOfUse,    \* local orderOfUse of simulateLRU
    refBits,       \* local refBits of simulateARB
    pointer,       \* local pointer of simulateARB (the clock hand)
    framesFilled,  \* local framesFilled of simulateARB
    result,        \* local result: [steps, faults, hits]
    step,          \* the MemoryStep under construction in simulateARB
    foundVictim,   \* local foundVictim of the victim search
    loopCount,     \* local loopCount of the victim search
    startPointer,  \* local startPointer of the victim search
    iterations     \* number of bodies of the while loop executed in this search

VARIABLES
    cylinders,         \* parameter cylinders of simulateLOOK / simulateCSCAN
    start,             \* parameter start
    requests,          \* parameter requests
    initialDirection,  \* parameter initialDirection (TRUE: towards higher cylinders)
    diskResult         \* the DiskResult returned: [sequence, seekDistance, path]

diskVars == <<cylinders, start, requests, initialDirection, diskResult>>

\* The input boundary: the validators (lib/validators.ts) and the Run and
\* Reset handlers of MemoryTab and DiskTab.  A text is a sequence of
\* one-character strings.
VARIABLES
    framesText,      \* MemoryTab's state frames / parameter frames of
                     \* validateMemoryInput (a text)
    referenceString, \* MemoryTab's state / parameter referenceString (a text)
    totalCylinders,  \* DiskTab's state totalCylinders / parameter cylinders of
                     \* validateDiskInput (a text)
    headPosition,    \* DiskTab's state / parameter headPosition (a text)
    requestQueue,    \* DiskTab's state / parameter requestQueue (a text)
    validation,      \* what the validator returned
    tab,             \* which component the run is about: "memory" or "disk"
    algorithm,       \* the tab's state algorithm: "lru", "arb", "look", "cscan"
    error,           \* the tab's state error
    tabResult,       \* the tab's state result: << >> for null, else <<result>>
    showResults,     \* the tab's state showResults
    cylinderCount,   \* DiskTab's state cylinderCount
    comparisonData,  \* SimulationProvider's state comparisonData
    simCalls         \* the simulation calls made, in call order: by the last
                     \* handler (the functions' names) in a run of the tabs,
                     \* since the start (function, arguments, returned value)
                     \* in a run of successive engine calls

uiVars == <<framesText, referenceString, totalCylinders, headPosition,
            requestQueue, validation, tab, algorithm, error, tabResult,
            showResults, cylinderCount, comparisonData, simCalls>>

\* The replay of a result: DiskVisualization shows result.sequence up to
\* animationStep, MemoryVisualization shows result.steps[currentStep].  One of
\* the two components is mounted in a run.
VARIABLES
    view,            \* the mounted component: "disk" or "memory"
    animationStep,   \* DiskVisualization's state animationStep
    currentStep,     \* MemoryVisualization's state currentStep
    isPlaying,       \* the component's state isPlaying
    animationRef,    \* the registered animate callback: << >> when there is
                     \* none, else <<the replay index its closure holds>>
    effectDeps       \* <<isPlaying, replay index>> of the render for which
                     \* the play/pause effect ran last

replayVars == <<view, animationStep, currentStep, isPlaying, animationRef,
                effectDeps>>

vars == <<alg, frameCount, refString, pc, i, frames, orderOfUse, refBits,
          pointer, framesFilled, result, step, foundVictim, loopCount,
          startPointer, iterations, diskVars, uiVars, replayVars>>

\* ------------------------------------------------- JavaScript array helpers
\* The indices of an array of n elements.
Indices(n) == 0 .. (n - 1)

Min(S) == CHOOSE x \in S : \A y \in S : x <= y

\* Array.prototype.includes on an array indexed from 0.
Includes(arr, v) == \E k \in DOMAIN arr : arr[k] = v

\* Array.prototype.indexOf on an array indexed from 0: lowest index, or -1.
IndexOf(arr, v) ==
    IF Includes(arr, v) THEN Min({k \in DOMAIN arr : arr[k] = v}) ELSE NOT_FOUND

\* orderOfUse.indexOf(v): the source's (0-based) position in a sequence, or -1.
SeqIndexOf(s, v) ==
    IF \E k \in 1 .. Len(s) : s[k] = v
    THEN Min({k \in 1 .. Len(s) : s[k] = v}) - 1
    ELSE NOT_FOUND

\* s.splice(pos, 1) for a 0-based position pos: the sequence without that element.
Splice1(s, pos) ==
    [k \in 1 .. (Len(s) - 1) |-> IF k <= pos THEN s[k] ELSE s[k + 1]]

\* ------------------------------------------------------------ workloads
Pages == 0 .. MaxPage

\* validateMemoryInput hands the engines page numbers >= 0, which the engines
\* only copy and compare for equality (with each other and with EMPTY).  The
\* enumerated reference strings are therefore taken up to renaming of pages:
\* the first page referenced is 0 and each page not seen before is the next
\* unused number.
NumDistinct(s) == Cardinality({s[j] : j \in 1 .. Len(s)})

RECURSIVE RefStringsOfLen(_)
RefStringsOfLen(n) ==
    IF n = 0 THEN {<< >>}
    ELSE UNION {{Append(s, p) : p \in {q \in Pages : q <= NumDistinct(s)}} :
                s \in RefStringsOfLen(n - 1)}

RefStrings == UNION {RefStringsOfLen(n) : n \in 1 .. MaxRefs}

\* Concrete scenario 1 of the specification (the textbook LRU example).
Scenario1 ==
    [frameCount |-> 3, refString |-> <<7, 0, 1, 2, 0, 3, 0, 4, 2, 3, 0, 3, 2>>]

\* The workloads a run can be called with.
Workloads ==
    {[frameCount |-> n, refString |-> s] : n \in 1 .. MaxFrames, s \in RefStrings}
        \cup {Scenario1}

\* ------------------------------------------------------- simulateLRU parts
\* Faulty variant of InitFrames: one slot too many.
InitFramesOneMore(n) == [k \in Indices(n + 1) |-> EMPTY]

\* new Array(frameCount).fill(-1)
InitFrames(n) == [k \in Indices(n) |-> EMPTY]

\* result = { steps: [], faults: 0, hits: 0 }
InitResult == [steps |-> << >>, faults |-> 0, hits |-> 0]

\* Faulty variant of CountHit: the increment is forgotten.
CountHitForgotten(res) == res

\* result.hits++
CountHit(res) == [res EXCEPT !.hits = @ + 1]

\* result.faults++
CountFault(res) == [res EXCEPT !.faults = @ + 1]

\* Faulty variant of PushStep: framesAfter is the frames array itself and not
\* a copy of it, so every recorded step shows the latest frame table.
PushStepShared(res, st) ==
    [res EXCEPT !.steps =
        Append([k \in 1 .. Len(@) |-> [@[k] EXCEPT !.framesAfter = st.framesAfter]],
               st)]

\* result.steps.push(step)
PushStep(res, st) == [res EXCEPT !.steps = Append(@, st)]

\* Faulty variant of LRUHitOrder: a hit leaves the order alone (first in, first out).
LRUHitOrderUnchanged(order, frameIndex) == order

\* Faulty variant of LRUHitOrder: the frame is pushed without being removed
\* from its old position.
LRUHitOrderNoRemove(order, frameIndex) == Append(order, frameIndex)

\* Hit: remove the frame from its position in the order (if it is there) and
\* push it at the most recently used end.
LRUHitOrder(order, frameIndex) ==
    LET posIndex == SeqIndexOf(order, frameIndex)
    IN  IF posIndex # NOT_FOUND
        THEN Append(Splice1(order, posIndex), frameIndex)
        ELSE Append(order, frameIndex)

\* Faulty variant of LRUEmptyIndex: the highest empty frame (lastIndexOf).
LRUEmptyIndexHighest(fr) ==
    CHOOSE k \in DOMAIN fr : fr[k] = EMPTY /\ \A l \in DOMAIN fr : fr[l] = EMPTY => l <= k

\* Fault with an empty frame: const emptyIndex = frames.indexOf(-1)
LRUEmptyIndex(fr) == IndexOf(fr, EMPTY)

\* Faulty variant of LRUFillOrder: the filled frame is not entered in the order.
LRUFillOrderForgotten(order, emptyIndex) == order

\* Fault with an empty frame: orderOfUse.push(emptyIndex)
LRUFillOrder(order, emptyIndex) == Append(order, emptyIndex)

\* Faulty variant of LRUVictim: the most recently used end is evicted.
LRUVictimNewest(order) == order[Len(order)]

\* Fault with no empty frame: const replaceFrameIndex = orderOfUse[0]
LRUVictim(order) == order[1]

\* Faulty variant of LRUEvictOrder: the frame goes back to the front of the order.
LRUEvictOrderFront(order, replaceFrameIndex) == <<replaceFrameIndex>> \o Tail(order)

\* Fault with no empty frame: orderOfUse.shift(); orderOfUse.push(replaceFrameIndex)
LRUEvictOrder(order, replaceFrameIndex) == Append(Tail(order), replaceFrameIndex)

\* Faulty variant of Store: the page is not written.
StoreNothing(fr, index, page) == fr

\* Faulty variant of Store: the page goes into the slot after the chosen one.
StoreInNextSlot(fr, index, page) ==
    [fr EXCEPT ![(index + 1) % Cardinality(DOMAIN fr)] = page]

\* frames[index] = page
Store(fr, index, page) == [fr EXCEPT ![index] = page]

\* One iteration of the for loop of simulateLRU: the new values of frames,
\* orderOfUse and result after processing page.
LRUIteration(fr, order, res, page) ==
    LET frameIndex == IndexOf(fr, page)
        step0 == [reference |-> page, frames |-> fr, framesAfter |-> << >>,
                  isFault |-> FALSE, replacedFrame |-> << >>,
                  orderOfUse |-> order]
    IN  IF frameIndex # NOT_FOUND
        THEN LET order1 == LRUHitOrder(order, frameIndex)
                 step1 == [step0 EXCEPT !.framesAfter = fr,
                                        !.orderOfUse = order1]
             IN  [frames |-> fr, orderOfUse |-> order1,
                  result |-> PushStep(CountHit(res), step1)]
        ELSE IF Includes(fr, EMPTY)
        THEN LET emptyIndex == LRUEmptyIndex(fr)
                 fr1 == Store(fr, emptyIndex, page)
                 order1 == LRUFillOrder(order, emptyIndex)
                 step1 == [step0 EXCEPT !.isFault = TRUE,
                                        !.replacedFrame = <<emptyIndex>>,
                                        !.framesAfter = fr1,
                                        !.orderOfUse = order1]
             IN  [frames |-> fr1, orderOfUse |-> order1,
                  result |-> PushStep(CountFault(res), step1)]
        ELSE LET replaceFrameIndex == LRUVictim(order)
                 fr1 == Store(fr, replaceFrameIndex, page)
                 order1 == LRUEvictOrder(order, replaceFrameIndex)
                 step1 == [step0 EXCEPT !.isFault = TRUE,
                                        !.replacedFrame = <<replaceFrameIndex>>,
                                        !.framesAfter = fr1,
                                        !.orderOfUse = order1]
             IN  [frames |-> fr1, orderOfUse |-> order1,
                  result |-> PushStep(CountFault(res), step1)]

\* ------------------------------------------------------- simulateARB parts
\* Faulty variant of InitRefBits: the array outlives the call and is reused
\* when its size fits.
InitRefBitsReused(n) ==
    IF DOMAIN refBits = Indices(n) THEN refBits ELSE [k \in Indices(n) |-> 0]

\* new Array(frameCount).fill(0)
InitRefBits(n) == [k \in Indices(n) |-> 0]

\* The MemoryStep object literal built at the head of each iteration.
NewARBStep(page, fr, bits, ptr) ==
    [reference |-> page, frames |-> fr, refBits |-> bits,
     framesAfter |-> << >>, refBitsAfter |-> << >>, isFault |-> FALSE,
     pointerPosition |-> ptr, pointerPositionAfter |-> ptr,
     resetBits |-> FALSE, replacedFrame |-> << >>]

\* The value of step before the first iteration creates one.
NoStep == NewARBStep(EMPTY, << >>, << >>, 0)

\* refBits[index] = 1
SetBit(bits, index) == [bits EXCEPT ![index] = 1]

\* Faulty variant of ClearBit: the second chance does not clear the bit.
ClearBitForgotten(bits, index) == bits

\* Second chance: refBits[pointer] = 0
ClearBit(bits, index) == [bits EXCEPT ![index] = 0]

\* Faulty variant of ARBHitBits: a hit leaves the reference bit alone.
ARBHitBitsUnchanged(bits, frameIndex) == bits

\* Faulty variant of ARBHitBits: a hit sets the bit of every frame.
ARBHitBitsAll(bits, frameIndex) == [k \in DOMAIN bits |-> 1]

\* Page hit: refBits[frameIndex] = 1
ARBHitBits(bits, frameIndex) == SetBit(bits, frameIndex)

\* Faulty variant of ARBMarkReset: the count is tested as it was before the
\* increment, so the flag is never set.
ARBMarkResetStale(st, count) ==
    IF count = 0 THEN [st EXCEPT !.resetBits = TRUE] ELSE st

\* if (loopCount === 1) step.resetBits = true
ARBMarkReset(st, count) ==
    IF count = 1 THEN [st EXCEPT !.resetBits = TRUE] ELSE st

\* Faulty variant of Advance: the hand does not wrap around.
AdvanceNoWrap(index, n) == index + 1

\* pointer = (index + 1) % frameCount
Advance(index, n) == (index + 1) % n

\* Faulty variant of ARBEmptyIndex: the highest empty frame (lastIndexOf).
ARBEmptyIndexHighest(fr) ==
    CHOOSE k \in DOMAIN fr : fr[k] = EMPTY /\ \A l \in DOMAIN fr : fr[l] = EMPTY => l <= k

\* Fault with an empty frame: const emptyIndex = frames.indexOf(-1)
ARBEmptyIndex(fr) == IndexOf(fr, EMPTY)

\* if (framesFilled < frameCount)
ARBHasEmptyFrame(filled, n) == filled < n

\* Faulty variant of ARBIsVictim: the test of the bit is inverted.
ARBIsVictimInverted(bits, ptr) == bits[ptr] = 1

\* if (refBits[pointer] === 0): the frame under the clock hand is the victim.
ARBIsVictim(bits, ptr) == bits[ptr] = 0

\* Faulty variant of ARBFullRevolution: every second chance counts as a
\* completed revolution.
ARBFullRevolutionAlways(ptr, origin) == TRUE

\* if (pointer === startPointer): the hand is back where the search started.
ARBFullRevolution(ptr, origin) == ptr = origin

\* step.framesAfter = [...frames]; step.refBitsAfter = [...refBits]
CloseARBStep(st, fr, bits) == [st EXCEPT !.framesAfter = fr, !.refBitsAfter = bits]

\* ------------------------------------------ the memory functions as a whole
\* The for loop of simulateLRU over refs, from the locals in loc.
RECURSIVE LRULoop(_, _)
LRULoop(loc, refs) ==
    IF refs = << >> THEN loc
    ELSE LRULoop(LRUIteration(loc.frames, loc.orderOfUse, loc.result, Head(refs)),
                 Tail(refs))

\* simulateLRU(n, refs): the MemoryResult it returns.
SimulateLRU(n, refs) ==
    LRULoop([frames |-> InitFrames(n), orderOfUse |-> << >>,
             result |-> InitResult], refs).result

\* The while (!foundVictim) loop of simulateARB, from the search state s:
\* [frames, refBits, pointer, step, loopCount, startPointer].
RECURSIVE ARBSearch(_, _, _)
ARBSearch(s, page, n) ==
    IF ARBIsVictim(s.refBits, s.pointer)
    THEN [s EXCEPT !.step = [@ EXCEPT !.replacedFrame = <<s.pointer>>],
                   !.frames = Store(@, s.pointer, page),
                   !.refBits = SetBit(@, s.pointer),
                   !.pointer = Advance(@, n)]
    ELSE LET bits1 == ClearBit(s.refBits, s.pointer)
             ptr1 == Advance(s.pointer, n)
         IN  IF ARBFullRevolution(ptr1, s.startPointer)
             THEN LET loopCount1 == s.loopCount + 1
                      step1 == ARBMarkReset(s.step, loopCount1)
                  IN  IF loopCount1 > 1
                      THEN [s EXCEPT
                               !.step = [step1 EXCEPT !.replacedFrame = <<ptr1>>],
                               !.frames = Store(@, ptr1, page),
                               !.refBits = SetBit(bits1, ptr1),
                               !.pointer = Advance(ptr1, n),
                               !.loopCount = loopCount1]
                      ELSE ARBSearch([s EXCEPT !.step = step1,
                                               !.refBits = bits1,
                                               !.pointer = ptr1,
                                               !.loopCount = loopCount1],
                                     page, n)
             ELSE ARBSearch([s EXCEPT !.refBits = bits1, !.pointer = ptr1],
                            page, n)

\* One iteration of the for loop of simulateARB, from the locals in loc:
\* [frames, refBits, pointer, framesFilled, result].
ARBIteration(loc, page, n) ==
    LET step0 == NewARBStep(page, loc.frames, loc.refBits, loc.pointer)
        frameIndex == IndexOf(loc.frames, page)
    IN  IF frameIndex # NOT_FOUND
        THEN LET bits1 == ARBHitBits(loc.refBits, frameIndex)
             IN  [loc EXCEPT
                     !.refBits = bits1,
                     !.result = PushStep(CountHit(@),
                                         CloseARBStep(step0, loc.frames, bits1))]
        ELSE IF ARBHasEmptyFrame(loc.framesFilled, n)
        THEN LET emptyIndex == ARBEmptyIndex(loc.frames)
                 fr1 == Store(loc.frames, emptyIndex, page)
                 bits1 == SetBit(loc.refBits, emptyIndex)
                 ptr1 == Advance(emptyIndex, n)
                 step1 == CloseARBStep(
                              [step0 EXCEPT !.isFault = TRUE,
                                            !.replacedFrame = <<emptyIndex>>,
                                            !.pointerPositionAfter = ptr1],
                              fr1, bits1)
             IN  [frames |-> fr1, refBits |-> bits1, pointer |-> ptr1,
                  framesFilled |-> loc.framesFilled + 1,
                  result |-> PushStep(CountFault(loc.result), step1)]
        ELSE LET found == ARBSearch(
                              [frames |-> loc.frames, refBits |-> loc.refBits,
                               pointer |-> loc.pointer,
                               step |-> [step0 EXCEPT !.isFault = TRUE],
                               loopCount |-> 0, startPointer |-> loc.pointer],
                              page, n)
                 step1 == CloseARBStep(
                              [found.step EXCEPT
                                  !.pointerPositionAfter = found.pointer],
                              found.frames, found.refBits)
             IN  [frames |-> found.frames, refBits |-> found.refBits,
                  pointer |-> found.pointer,
                  framesFilled |-> loc.framesFilled,
                  result |-> PushStep(CountFault(loc.result), step1)]

\* The for loop of simulateARB over refs.
RECURSIVE ARBLoop(_, _, _)
ARBLoop(loc, refs, n) ==
    IF refs = << >> THEN loc
    ELSE ARBLoop(ARBIteration(loc, Head(refs), n), Tail(refs), n)

\* simulateARB(n, refs): the MemoryResult it returns.
SimulateARB(n, refs) ==
    ARBLoop([frames |-> InitFrames(n), refBits |-> InitRefBits(n),
             pointer |-> 0, framesFilled |-> 0, result |-> InitResult],
            refs, n).result

\* ------------------------------------------------------ disk engine parts
\* Math.abs
Abs(x) == IF x < 0 THEN -x ELSE x

\* Faulty variant of Reverse: the copy is not reversed.
ReverseForgotten(s) == s

\* [...s].reverse()
Reverse(s) == [k \in 1 .. Len(s) |-> s[Len(s) + 1 - k]]

\* Faulty variant of InsertAscending: v is put at the front.
InsertAtFront(s, v) == <<v>> \o s

\* s with v inserted before the first element greater than v.
RECURSIVE InsertAscending(_, _)
InsertAscending(s, v) ==
    IF s = << >> THEN <<v>>
    ELSE IF v < Head(s) THEN <<v>> \o s
    ELSE <<Head(s)>> \o InsertAscending(Tail(s), v)

\* Faulty variant of SortAscending: the queue is left in arrival order.
SortAscendingForgotten(s) == s

\* [...requests].sort((a, b) => a - b): ascending numeric order.
RECURSIVE SortAscending(_)
SortAscending(s) ==
    IF s = << >> THEN << >>
    ELSE InsertAscending(SortAscending(SubSeq(s, 1, Len(s) - 1)), s[Len(s)])

\* Faulty variant of IsHigher: requests at the start cylinder count as higher.
IsHigherOrEqual(r, st) == r >= st

\* The filter tests of the three groups: r > start, r < start, r === start.
IsHigher(r, st) == r > st

IsLower(r, st) == r < st

IsAtStart(r, st) == r = st

\* sortedRequests.filter((r) => r > start), and the two other groups.
HigherOf(sorted, st) == SelectSeq(sorted, LAMBDA r : IsHigher(r, st))

LowerOf(sorted, st) == SelectSeq(sorted, LAMBDA r : IsLower(r, st))

AtStartOf(sorted, st) == SelectSeq(sorted, LAMBDA r : IsAtStart(r, st))

\* The state of a call after its first statements: result = { sequence:
\* [start], seekDistance: 0, path: [[start, 0]] }, step = 1,
\* currentPosition = start.
InitRun(st) ==
    [sequence |-> <<st>>, seekDistance |-> 0, path |-> <<<<st, 0>>>>,
     step |-> 1, currentPosition |-> st]

\* The head moves to cylinder cyl and dist is added to the seek distance:
\* result.seekDistance += dist; result.sequence.push(cyl);
\* result.path?.push([cyl, step++]); currentPosition = cyl.
Push(run, cyl, dist) ==
    [sequence |-> Append(run.sequence, cyl),
     seekDistance |-> run.seekDistance + dist,
     path |-> Append(run.path, <<cyl, run.step>>),
     step |-> run.step + 1,
     currentPosition |-> cyl]

\* Faulty variant of Distance: the absolute value is forgotten.
DistanceSigned(req, currentPosition) == req - currentPosition

\* Math.abs(req - currentPosition)
Distance(req, currentPosition) == Abs(req - currentPosition)

\* The body of for (const req of ...): the request is served.
Serve(run, req) == Push(run, req, Distance(req, run.currentPosition))

\* for (const req of reqs) { ... }
RECURSIVE ServeAll(_, _)
ServeAll(run, reqs) ==
    IF reqs = << >> THEN run
    ELSE ServeAll(Serve(run, Head(reqs)), Tail(reqs))

\* Faulty variant of Jump: the wrap is counted like any other move.
JumpCounted(run, cyl) == Push(run, cyl, Abs(cyl - run.currentPosition))

\* The wrap of C-SCAN: the head jumps to cyl and nothing is added.
Jump(run, cyl) == Push(run, cyl, 0)

\* return result
ResultOf(run) ==
    [sequence |-> run.sequence, seekDistance |-> run.seekDistance,
     path |-> run.path]

\* simulateLOOK
SimulateLOOK(cyls, st, reqs, dir) ==
    LET sortedRequests == SortAscending(reqs)
        higher == HigherOf(sortedRequests, st)
        lower == LowerOf(sortedRequests, st)
        run0 == InitRun(st)
    IN  IF dir
        THEN LET run1 == IF Len(higher) > 0 THEN ServeAll(run0, higher) ELSE run0
                 run2 == IF Len(lower) > 0
                         THEN ServeAll(run1, Reverse(lower)) ELSE run1
             IN  ResultOf(run2)
        ELSE LET run1 == IF Len(lower) > 0
                         THEN ServeAll(run0, Reverse(lower)) ELSE run0
                 run2 == IF Len(higher) > 0 THEN ServeAll(run1, higher) ELSE run1
             IN  ResultOf(run2)

\* Faulty variant of TopBoundary: off by one.
TopBoundaryOffByOne(cyls) == cyls

\* cylinders - 1: the highest cylinder.
TopBoundary(cyls) == cyls - 1

\* Faulty variant of CSCANNeedsTopMove: the top is visited even when the
\* head is already there.
CSCANNeedsTopMoveAlways(currentPosition, cyls) == TRUE

\* if (currentPosition < cylinders - 1): the head is not at the top yet.
CSCANNeedsTopMove(currentPosition, cyls) == currentPosition < cyls - 1

\* Faulty variant of CSCANNeedsBottomMove: cylinder 0 is never visited before
\* the jump.
CSCANNeedsBottomMoveNever(currentPosition) == FALSE

\* if (currentPosition > 0): the head is not at cylinder 0 yet.
CSCANNeedsBottomMove(currentPosition) == currentPosition > 0

\* Faulty variant of CSCANBottomMove: the move down to cylinder 0 is not counted.
CSCANBottomMoveFree(currentPosition) == 0

\* result.seekDistance += currentPosition: the move down to cylinder 0.
CSCANBottomMove(currentPosition) == currentPosition

\* Faulty variant of CSCANWraps: the head wraps even when no request is left.
CSCANWrapsAlways(others) == TRUE

\* if (lower.length > 0) / if (higher.length > 0): requests are left on the
\* other side of the start cylinder.
CSCANWraps(others) == Len(others) > 0

\* simulateCSCAN
SimulateCSCAN(cyls, st, reqs, dir) ==
    LET sortedRequests == SortAscending(reqs)
        higher == HigherOf(sortedRequests, st)
        lower == LowerOf(sortedRequests, st)
        run0 == InitRun(st)
    IN  IF dir
        THEN LET run1 == ServeAll(run0, higher)
             IN  IF CSCANWraps(lower)
                 THEN LET run2 == IF CSCANNeedsTopMove(run1.currentPosition, cyls)
                                  THEN Push(run1, TopBoundary(cyls),
                                            Abs(cyls - 1 - run1.currentPosition))
                                  ELSE run1
                          run3 == Jump(run2, 0)
                      IN  ResultOf(ServeAll(run3, lower))
                 ELSE ResultOf(run1)
        ELSE LET run1 == ServeAll(run0, Reverse(lower))
             IN  IF CSCANWraps(higher)
                 THEN LET run2 == IF CSCANNeedsBottomMove(run1.currentPosition)
                                  THEN Push(run1, 0,
                                            CSCANBottomMove(run1.currentPosition))
                                  ELSE run1
                          run3 == Jump(run2, TopBoundary(cyls))
                      IN  ResultOf(ServeAll(run3, Reverse(higher)))
                 ELSE ResultOf(run1)

\* ------------------------------------------------------- disk workloads
\* The request queues of length n over the cylinders 0 .. cyls-1.
RequestQueuesOfLen(cyls, n) == [1 .. n -> 0 .. (cyls - 1)]

\* The workload of the specification's concrete LOOK and C-SCAN scenarios.
Scenario2 ==
    [cylinders |-> 200, start |-> 50,
     requests |-> <<82, 170, 43, 140, 24, 16, 190>>]

\* No disk function has been called or has returned.
NoDiskResult == [sequence |-> << >>, seekDistance |-> 0, path |-> << >>]

\* The disk engine's variables in a run of the memory engine.
DiskIdle ==
    /\ cylinders = 0
    /\ start = 0
    /\ requests = << >>
    /\ initialDirection = TRUE
    /\ diskResult = NoDiskResult

\* ------------------------------------------------ JavaScript text and numbers
\* A JavaScript number: NaN, or mant / 10^frac with the fraction in lowest
\* terms of ten (1.50 and 1.5 are the same number; -0 is taken as 0).
NaN == [nan |-> TRUE, mant |-> 0, frac |-> 0]

RECURSIVE Num(_, _)
Num(m, f) ==
    IF f > 0 /\ m % 10 = 0 THEN Num(m \div 10, f - 1)
    ELSE [nan |-> FALSE, mant |-> m, frac |-> f]

\* isNaN(x)
IsNaN(x) == x.nan

\* !x for a number: NaN and 0 are falsy.
Falsy(x) == x.nan \/ x.mant = 0

\* x < 0, x <= 0: comparisons with NaN are false.
Negative(x) == ~x.nan /\ x.mant < 0

NotPositive(x) == ~x.nan /\ x.mant <= 0

\* x >= y for an x that is not NaN and an integer y that is not NaN.
AtLeast(x, y) == ~x.nan /\ ~y.nan /\ x.frac = 0 /\ y.frac = 0 /\ x.mant >= y.mant

\* Number.isInteger(x)
IsInteger(x) == ~x.nan /\ x.frac = 0

DigitChars == <<"0", "1", "2", "3", "4", "5", "6", "7", "8", "9">>

IsDigit(c) == \E k \in 1 .. Len(DigitChars) : DigitChars[k] = c

DigitValue(c) == (CHOOSE k \in 1 .. Len(DigitChars) : DigitChars[k] = c) - 1

\* White space; the texts of the model hold no other white space than " ".
IsSpace(c) == c = " "

\* The longest prefix of s made of digits.
RECURSIVE DigitPrefix(_)
DigitPrefix(s) ==
    IF s = << >> \/ ~IsDigit(Head(s)) THEN << >>
    ELSE <<Head(s)>> \o DigitPrefix(Tail(s))

\* Faulty variant of DigitsValue: the digits are weighted from the wrong end.
RECURSIVE DigitsValueReversed(_)
DigitsValueReversed(ds) ==
    IF ds = << >> THEN 0
    ELSE DigitsValueReversed(Tail(ds)) * 10 + DigitValue(Head(ds))

\* The value of a sequence of decimal digits.
RECURSIVE DigitsValue(_)
DigitsValue(ds) ==
    IF ds = << >> THEN 0
    ELSE DigitsValue(SubSeq(ds, 1, Len(ds) - 1)) * 10 + DigitValue(ds[Len(ds)])

\* String.prototype.trim, and its two halves.
RECURSIVE TrimStart(_)
TrimStart(s) == IF s # << >> /\ IsSpace(Head(s)) THEN TrimStart(Tail(s)) ELSE s

RECURSIVE TrimEnd(_)
TrimEnd(s) ==
    IF s # << >> /\ IsSpace(s[Len(s)]) THEN TrimEnd(SubSeq(s, 1, Len(s) - 1))
    ELSE s

Trim(s) == TrimEnd(TrimStart(s))

\* The position of the first character of s that satisfies Test, or 0.
FirstWhere(s, Test(_)) ==
    IF \E k \in 1 .. Len(s) : Test(s[k])
    THEN CHOOSE k \in 1 .. Len(s) :
             Test(s[k]) /\ \A j \in 1 .. (k - 1) : ~Test(s[j])
    ELSE 0

\* s.split(/\s+/): the pieces between the runs of white space.
RECURSIVE SplitWhitespace(_)
SplitWhitespace(s) ==
    LET k == FirstWhere(s, IsSpace)
    IN  IF k = 0 THEN <<s>>
        ELSE <<SubSeq(s, 1, k - 1)>>
                 \o SplitWhitespace(TrimStart(SubSeq(s, k, Len(s))))

IsComma(c) == c = ","

\* s.split(','): the pieces between the commas, empty pieces included.
RECURSIVE SplitComma(_)
SplitComma(s) ==
    LET k == FirstWhere(s, IsComma)
    IN  IF k = 0 THEN <<s>>
        ELSE <<SubSeq(s, 1, k - 1)>> \o SplitComma(SubSeq(s, k + 1, Len(s)))

\* The sign a numeric text starts with, and the text after it.
HasSign(s) == s # << >> /\ Head(s) \in {"+", "-"}

Unsigned(s) == IF HasSign(s) THEN Tail(s) ELSE s

Signed(s, n) == IF s # << >> /\ Head(s) = "-" THEN -n ELSE n

\* parseInt(text): leading white space is skipped, then an optional sign and
\* the longest run of decimal digits are read; whatever follows is ignored;
\* NaN when there is no digit.  (The texts of the model have no 0x prefix.)
ParseInt(text) ==
    LET s == TrimStart(text)
        ds == DigitPrefix(Unsigned(s))
    IN  IF ds = << >> THEN NaN ELSE Num(Signed(s, DigitsValue(ds)), 0)

\* Number(text): the whole trimmed text has to be a numeric literal, an
\* optional sign and digits with at most one decimal point and at least one
\* digit; the empty text is 0; anything else is NaN.  (The texts of the model
\* have no exponent part, no Infinity and no 0x/0o/0b prefix.)
ToNumber(text) ==
    LET s == Trim(text)
        body == Unsigned(s)
        intPart == DigitPrefix(body)
        afterInt == SubSeq(body, Len(intPart) + 1, Len(body))
        hasPoint == afterInt # << >> /\ Head(afterInt) = "."
        fracPart == IF hasPoint THEN DigitPrefix(Tail(afterInt)) ELSE << >>
        used == Len(intPart) + (IF hasPoint THEN 1 + Len(fracPart) ELSE 0)
    IN  IF s = << >> THEN Num(0, 0)
        ELSE IF used = Len(body) /\ Len(intPart) + Len(fracPart) > 0
        THEN Num(Signed(s, DigitsValue(intPart \o fracPart)), Len(fracPart))
        ELSE NaN

\* arr.map(F) and arr.some(Test)
Map(arr, F(_)) == [k \in 1 .. Len(arr) |-> F(arr[k])]

Some(arr, Test(_)) == \E k \in 1 .. Len(arr) : Test(arr[k])

\* ------------------------------------------------------------- validators
\* A message is the sequence of the parts of its (template) literal; the
\* empty message '' is << >>.
Reject(message) == [valid |-> FALSE, message |-> message]

\* Faulty variant of HasNaN: the check is skipped.
HasNaNIgnored(arr) == FALSE

\* refArray.some(isNaN)
HasNaN(arr) == Some(arr, IsNaN)

\* refArray.some(num => num < 0)
HasNegative(arr) == Some(arr, Negative)

\* validateMemoryInput
ValidateMemoryInput(framesIn, referenceIn) ==
    LET count == ParseInt(framesIn)
        refStringValue == Trim(referenceIn)
        refArray == Map(SplitWhitespace(refStringValue), ToNumber)
    IN  IF Falsy(count) \/ NotPositive(count)
        THEN Reject(<<"Number of frames must be a positive integer">>)
        ELSE IF refStringValue = << >>
        THEN Reject(<<"Reference string is required">>)
        ELSE IF HasNaN(refArray)
        THEN Reject(<<"Reference string must contain only numbers separated by spaces">>)
        ELSE IF HasNegative(refArray)
        THEN Reject(<<"Reference string must contain non-negative integers">>)
        ELSE [valid |-> TRUE, message |-> << >>, frameCount |-> count,
              refArray |-> refArray]

\* cylindersCount - 1, the number the range messages name.
Minus1(x) == Num(x.mant - 1, 0)

\* Faulty variant of OutOfRange: the upper end is off by one.
OutOfRangeOffByOne(num, cylindersCount) ==
    Negative(num) \/ (AtLeast(num, cylindersCount) /\ num # cylindersCount)

\* num < 0 || num >= cylindersCount
OutOfRange(num, cylindersCount) == Negative(num) \/ AtLeast(num, cylindersCount)

\* r => parseInt(r.trim())
ParseRequest(r) == ParseInt(Trim(r))

\* validateDiskInput
ValidateDiskInput(cylindersIn, headPositionIn, requestQueueIn) ==
    LET cylindersCount == ParseInt(cylindersIn)
        head == ParseInt(headPositionIn)
        requestsValue == Trim(requestQueueIn)
        requestArray == Map(SplitComma(requestsValue), ParseRequest)
    IN  IF Falsy(cylindersCount) \/ NotPositive(cylindersCount)
        THEN Reject(<<"Total cylinders must be a positive integer">>)
        ELSE IF IsNaN(head) \/ Negative(head)
        THEN Reject(<<"Head position must be a non-negative integer">>)
        ELSE IF AtLeast(head, cylindersCount)
        THEN Reject(<<"Head position must be less than total cylinders (0-",
                      Minus1(cylindersCount), ")">>)
        ELSE IF requestsValue = << >>
        THEN Reject(<<"Request queue is required">>)
        ELSE IF Some(requestArray, IsNaN)
        THEN Reject(<<"Request queue must contain only numbers separated by commas">>)
        ELSE IF Some(requestArray, LAMBDA num : OutOfRange(num, cylindersCount))
        THEN Reject(<<"Request queue must contain integers between 0 and ",
                      Minus1(cylindersCount)>>)
        ELSE [valid |-> TRUE, message |-> << >>, cylinders |-> cylindersCount,
              start |-> head, requestArray |-> requestArray]

\* useState(...) of SimulationProvider: no comparison entry yet.
InitComparisonData == [lru |-> << >>, arb |-> << >>, cscan |-> << >>, look |-> << >>]

\* No validator has been called or has returned.
NoValidation == [valid |-> FALSE, message |-> << >>]

\* The input boundary's variables in a run of an engine function alone.
UiIdle ==
    /\ framesText = << >>
    /\ referenceString = << >>
    /\ totalCylinders = << >>
    /\ headPosition = << >>
    /\ requestQueue = << >>
    /\ validation = NoValidation
    /\ tab = "none"
    /\ algorithm = "none"
    /\ error = << >>
    /\ tabResult = << >>
    /\ showResults = FALSE
    /\ cylinderCount = 0
    /\ comparisonData = InitComparisonData
    /\ simCalls = << >>

\* No component replays a result.
ReplayIdle ==
    /\ view = "none"
    /\ animationStep = 1
    /\ currentStep = 0
    /\ isPlaying = FALSE
    /\ animationRef = << >>
    /\ effectDeps = << >>

\* ------------------------------------------------------------------ Init
Init ==
    /\ UiIdle
    /\ ReplayIdle
    /\ alg \in {"LRU", "ARB"}
    /\ \E w \in Workloads :
        /\ frameCount = w.frameCount
        /\ refString = w.refString
        /\ frames = InitFrames(w.frameCount)
        /\ refBits = InitRefBits(w.frameCount)
    /\ pc = "loop"
    /\ i = 0
    /\ orderOfUse = << >>
    /\ pointer = 0
    /\ framesFilled = 0
    /\ result = InitResult
    /\ step = NoStep
    /\ foundVictim = FALSE
    /\ loopCount = 0
    /\ startPointer = 0
    /\ iterations = 0
    /\ DiskIdle

\* The page of the current iteration: const page = refString[i].
Page == refString[i + 1]

\* --------------------------------------------------------------- actions
\* simulateLRU: one iteration of the for loop.
LRUStep ==
    /\ alg = "LRU"
    /\ pc = "loop"
    /\ i < Len(refString)
    /\ LET next == LRUIteration(frames, orderOfUse, result, Page)
       IN  /\ frames' = next.frames
           /\ orderOfUse' = next.orderOfUse
           /\ result' = next.result
    /\ i' = i + 1
    /\ UNCHANGED <<replayVars, alg, frameCount, refString, pc, refBits, pointer,
                   framesFilled, step, foundVictim, loopCount, startPointer,
                   iterations, diskVars, uiVars>>

\* simulateARB: one iteration of the for loop, up to the point where the
\* victim search starts.  A hit and a fault that fills an empty frame
\* complete the iteration; a fault with all frames filled enters the while loop.
ARBStep ==
    /\ alg = "ARB"
    /\ pc = "loop"
    /\ i < Len(refString)
    /\ LET step0 == NewARBStep(Page, frames, refBits, pointer)
           frameIndex == IndexOf(frames, Page)
       IN  IF frameIndex # NOT_FOUND
           THEN LET bits1 == ARBHitBits(refBits, frameIndex)
                    step1 == CloseARBStep(step0, frames, bits1)
                IN  /\ refBits' = bits1
                    /\ step' = step1
                    /\ result' = PushStep(CountHit(result), step1)
                    /\ i' = i + 1
                    /\ UNCHANGED <<pc, frames, pointer, framesFilled,
                                   foundVictim, loopCount, startPointer,
                                   iterations>>
           ELSE IF ARBHasEmptyFrame(framesFilled, frameCount)
           THEN LET emptyIndex == ARBEmptyIndex(frames)
                    fr1 == Store(frames, emptyIndex, Page)
                    bits1 == SetBit(refBits, emptyIndex)
                    ptr1 == Advance(emptyIndex, frameCount)
                    step1 == CloseARBStep(
                                 [step0 EXCEPT !.isFault = TRUE,
                                               !.replacedFrame = <<emptyIndex>>,
                                               !.pointerPositionAfter = ptr1],
                                 fr1, bits1)
                IN  /\ frames' = fr1
                    /\ refBits' = bits1
                    /\ framesFilled' = framesFilled + 1
                    /\ pointer' = ptr1
                    /\ step' = step1
                    /\ result' = PushStep(CountFault(result), step1)
                    /\ i' = i + 1
                    /\ UNCHANGED <<pc, foundVictim, loopCount, startPointer,
                                   iterations>>
           ELSE /\ result' = CountFault(result)
                /\ step' = [step0 EXCEPT !.isFault = TRUE]
                /\ foundVictim' = FALSE
                /\ loopCount' = 0
                /\ startPointer' = pointer
                /\ iterations' = 0
                /\ pc' = "sweep"
                /\ UNCHANGED <<i, frames, refBits, pointer, framesFilled>>
    /\ UNCHANGED <<replayVars, alg, frameCount, refString, orderOfUse, diskVars, uiVars>>

\* simulateARB: one execution of the body of while (!foundVictim).
ARBSweep ==
    /\ pc = "sweep"
    /\ ~foundVictim
    /\ iterations' = iterations + 1
    /\ IF ARBIsVictim(refBits, pointer)
       THEN /\ step' = [step EXCEPT !.replacedFrame = <<pointer>>]
            /\ frames' = Store(frames, pointer, Page)
            /\ refBits' = SetBit(refBits, pointer)
            /\ foundVictim' = TRUE
            /\ pointer' = Advance(pointer, frameCount)
            /\ UNCHANGED loopCount
       ELSE LET bits1 == ClearBit(refBits, pointer)
                ptr1 == Advance(pointer, frameCount)
            IN  IF ARBFullRevolution(ptr1, startPointer)
                THEN LET loopCount1 == loopCount + 1
                         step1 == ARBMarkReset(step, loopCount1)
                     IN  /\ loopCount' = loopCount1
                         /\ IF loopCount1 > 1
                            THEN /\ step' = [step1 EXCEPT
                                                !.replacedFrame = <<ptr1>>]
                                 /\ frames' = Store(frames, ptr1, Page)
                                 /\ refBits' = SetBit(bits1, ptr1)
                                 /\ foundVictim' = TRUE
                                 /\ pointer' = Advance(ptr1, frameCount)
                            ELSE /\ step' = step1
                                 /\ refBits' = bits1
                                 /\ pointer' = ptr1
                                 /\ UNCHANGED <<frames, foundVictim>>
                ELSE /\ refBits' = bits1
                     /\ pointer' = ptr1
                     /\ UNCHANGED <<step, frames, foundVictim, loopCount>>
    /\ UNCHANGED <<replayVars, alg, frameCount, refString, pc, i, orderOfUse,
                   framesFilled, result, startPointer, diskVars, uiVars>>

\* simulateARB: the while loop has ended; the rest of the iteration records
\* the pointer, the snapshots after the step and pushes the step.
ARBFinishStep ==
    /\ pc = "sweep"
    /\ foundVictim
    /\ LET step1 == CloseARBStep(
                        [step EXCEPT !.pointerPositionAfter = pointer],
                        frames, refBits)
       IN  /\ step' = step1
           /\ result' = PushStep(result, step1)
    /\ i' = i + 1
    /\ pc' = "loop"
    /\ UNCHANGED <<replayVars, alg, frameCount, refString, frames, orderOfUse, refBits,
                   pointer, framesFilled, foundVictim, loopCount,
                   startPointer, iterations, diskVars, uiVars>>

\* Both functions: the for loop has ended; return result.
Return ==
    /\ pc = "loop"
    /\ i = Len(refString)
    /\ pc' = "done"
    /\ UNCHANGED <<replayVars, alg, frameCount, refString, i, frames, orderOfUse, refBits,
                   pointer, framesFilled, result, step, foundVictim,
                   loopCount, startPointer, iterations, diskVars, uiVars>>

Next == LRUStep \/ ARBStep \/ ARBSweep \/ ARBFinishStep \/ Return

Spec == Init /\ [][Next]_vars

\* The engines are synchronous single-threaded functions: a call that can take
\* a step takes it.
LiveSpec == Spec /\ WF_vars(Next)

\* ------------------------------------------------------------ disk runs
\* The memory engine's variables in a run of the disk engine.
MemoryIdle ==
    /\ frameCount = 0
    /\ refString = << >>
    /\ i = 0
    /\ frames = << >>
    /\ orderOfUse = << >>
    /\ refBits = << >>
    /\ pointer = 0
    /\ framesFilled = 0
    /\ result = InitResult
    /\ step = NoStep
    /\ foundVictim = FALSE
    /\ loopCount = 0
    /\ startPointer = 0
    /\ iterations = 0

memVars == <<frameCount, refString, i, frames, orderOfUse, refBits, pointer,
             framesFilled, result, step, foundVictim, loopCount, startPointer,
             iterations>>

\* A call of simulateLOOK or simulateCSCAN with what validateDiskInput
\* accepts: cylinders >= 1, 0 <= start < cylinders, and a non-empty queue of
\* requests in 0 .. cylinders-1.  The workloads are the small ones and the
\* one of the concrete scenarios.
DiskInit ==
    /\ ReplayIdle
    /\ alg \in {"LOOK", "CSCAN"}
    /\ pc = "call"
    /\ \/ /\ cylinders \in 1 .. MaxCylinders
          /\ start \in 0 .. (cylinders - 1)
          /\ \E n \in 1 .. MaxRequests :
                 requests \in RequestQueuesOfLen(cylinders, n)
       \/ /\ cylinders = Scenario2.cylinders
          /\ start = Scenario2.start
          /\ requests = Scenario2.requests
    /\ initialDirection \in BOOLEAN
    /\ diskResult = NoDiskResult
    /\ MemoryIdle
    /\ UiIdle

\* simulateLOOK runs and returns.
LOOKCall ==
    /\ alg = "LOOK"
    /\ pc = "call"
    /\ diskResult' = SimulateLOOK(cylinders, start, requests, initialDirection)
    /\ pc' = "done"
    /\ UNCHANGED <<replayVars, alg, cylinders, start, requests, initialDirection, memVars,
                   uiVars>>

\* simulateCSCAN runs and returns.
CSCANCall ==
    /\ alg = "CSCAN"
    /\ pc = "call"
    /\ diskResult' = SimulateCSCAN(cylinders, start, requests, initialDirection)
    /\ pc' = "done"
    /\ UNCHANGED <<replayVars, alg, cylinders, start, requests, initialDirection, memVars,
                   uiVars>>

DiskNext == LOOKCall \/ CSCANCall

DiskSpec == DiskInit /\ [][DiskNext]_vars

\* ------------------------------------------------- successive engine calls
\* The arguments of the calls made one after the other.
CallMemoryWorkloads ==
    {[frameCount |-> 1, refString |-> <<1, 2>>],
     [frameCount |-> 2, refString |-> <<1, 2, 3>>],
     [frameCount |-> 2, refString |-> <<1, 2, 1, 3, 2>>]}

CallDiskWorkloads ==
    {[cylinders |-> 5, start |-> 2, requests |-> <<4, 0>>],
     [cylinders |-> 5, start |-> 2, requests |-> <<3>>]}

\* The call that has just returned, as an entry of simCalls.
ReturnedCall ==
    IF alg \in {"LRU", "ARB"}
    THEN [function |-> alg, arguments |-> <<frameCount, refString>>,
          returned |-> result]
    ELSE [function |-> alg,
          arguments |-> <<cylinders, start, requests, initialDirection>>,
          returned |-> diskResult]

\* The calls made so far, the one that has just returned included.
CallsAfterReturn == IF pc = "done" THEN Append(simCalls, ReturnedCall) ELSE simCalls

\* No call has been made yet.
CallInit ==
    /\ ReplayIdle
    /\ alg = "none"
    /\ pc = "idle"
    /\ MemoryIdle
    /\ DiskIdle
    /\ UiIdle

\* simulateLRU or simulateARB is called once the previous call, if any, has
\* returned: the statements before the for loop create the function's locals.
\* The locals of the victim search are created inside the loop, when it is
\* entered.
NewMemoryCall ==
    /\ pc \in {"idle", "done"}
    /\ Len(CallsAfterReturn) < MaxCalls
    /\ simCalls' = CallsAfterReturn
    /\ \E a \in {"LRU", "ARB"}, w \in CallMemoryWorkloads :
        /\ alg' = a
        /\ frameCount' = w.frameCount
        /\ refString' = w.refString
        /\ frames' = InitFrames(w.frameCount)
        /\ refBits' = InitRefBits(w.frameCount)
    /\ orderOfUse' = << >>
    /\ pointer' = 0
    /\ framesFilled' = 0
    /\ result' = InitResult
    /\ i' = 0
    /\ pc' = "loop"
    /\ UNCHANGED <<replayVars, step, foundVictim, loopCount, startPointer, iterations,
                   diskVars, framesText, referenceString, totalCylinders,
                   headPosition, requestQueue, validation, tab, algorithm,
                   error, tabResult, showResults, cylinderCount,
                   comparisonData>>

\* simulateLOOK or simulateCSCAN is called once the previous call, if any,
\* has returned.
NewDiskCall ==
    /\ pc \in {"idle", "done"}
    /\ Len(CallsAfterReturn) < MaxCalls
    /\ simCalls' = CallsAfterReturn
    /\ \E a \in {"LOOK", "CSCAN"}, w \in CallDiskWorkloads, d \in BOOLEAN :
        /\ alg' = a
        /\ cylinders' = w.cylinders
        /\ start' = w.start
        /\ requests' = w.requests
        /\ initialDirection' = d
    /\ pc' = "call"
    /\ UNCHANGED <<replayVars, diskResult, memVars, framesText, referenceString,
                   totalCylinders, headPosition, requestQueue, validation,
                   tab, algorithm, error, tabResult, showResults,
                   cylinderCount, comparisonData>>

CallNext ==
    \/ NewMemoryCall \/ NewDiskCall
    \/ LRUStep \/ ARBStep \/ ARBSweep \/ ARBFinishStep \/ Return
    \/ LOOKCall \/ CSCANCall

CallSpec == CallInit /\ [][CallNext]_vars

\* ---------------------------------------------------------- validator runs
\* The texts of length at most n over an alphabet.
TextsUpTo(alphabet, n) == UNION {[1 .. k -> alphabet] : k \in 0 .. n}

\* What is typed into the number fields (frames, total cylinders, head
\* position): nothing, zero, a negative number, letters, positive integers,
\* a fraction, digits followed by a letter, a padded number.
NumberFieldTexts ==
    {<< >>, <<"0">>, <<"-", "5">>, <<"a", "b", "c">>, <<"1">>, <<"2">>,
     <<"3">>, <<"1", "2">>, <<"1", ".", "5">>, <<"2", "a">>, <<" ", "2">>}

\* The characters typed into the reference string field.
ReferenceChars == {"0", "1", "2", "-", ".", " ", "a"}

\* The characters typed into the request queue field.
QueueChars == {"0", "1", "2", "-", ",", " ", "a"}

\* A call of validateMemoryInput or validateDiskInput with any texts.
ValidateInit ==
    /\ ReplayIdle
    /\ \/ /\ alg = "validateMemoryInput"
          /\ framesText \in NumberFieldTexts
          /\ referenceString \in TextsUpTo(ReferenceChars, MaxRefText)
          /\ totalCylinders = << >>
          /\ headPosition = << >>
          /\ requestQueue = << >>
       \/ /\ alg = "validateDiskInput"
          /\ framesText = << >>
          /\ referenceString = << >>
          /\ totalCylinders \in NumberFieldTexts
          /\ headPosition \in NumberFieldTexts
          /\ requestQueue \in TextsUpTo(QueueChars, MaxQueueText)
    /\ pc = "call"
    /\ validation = NoValidation
    /\ tab = "none"
    /\ algorithm = "none"
    /\ error = << >>
    /\ tabResult = << >>
    /\ showResults = FALSE
    /\ cylinderCount = 0
    /\ comparisonData = InitComparisonData
    /\ simCalls = << >>
    /\ MemoryIdle
    /\ DiskIdle

\* validateMemoryInput runs and returns.
ValidateMemoryCall ==
    /\ alg = "validateMemoryInput"
    /\ pc = "call"
    /\ validation' = ValidateMemoryInput(framesText, referenceString)
    /\ pc' = "done"
    /\ UNCHANGED <<replayVars, alg, framesText, referenceString, totalCylinders,
                   headPosition, requestQueue, tab, algorithm, error,
                   tabResult, showResults, cylinderCount, comparisonData,
                   simCalls, memVars, diskVars>>

\* validateDiskInput runs and returns.
ValidateDiskCall ==
    /\ alg = "validateDiskInput"
    /\ pc = "call"
    /\ validation' = ValidateDiskInput(totalCylinders, headPosition, requestQueue)
    /\ pc' = "done"
    /\ UNCHANGED <<replayVars, alg, framesText, referenceString, totalCylinders,
                   headPosition, requestQueue, tab, algorithm, error,
                   tabResult, showResults, cylinderCount, comparisonData,
                   simCalls, memVars, diskVars>>

ValidateNext == ValidateMemoryCall \/ ValidateDiskCall

ValidateSpec == ValidateInit /\ [][ValidateNext]_vars

\* ------------------------------------------------ MemoryTab and DiskTab runs
\* The engines take the validated numbers as they are; the texts typed in
\* these runs denote integers only.
EngineNumber(x) == x.mant

\* Faulty variant of UpdateMemoryComparison: the previous entries are not
\* spread into the new object.
UpdateMemoryComparisonAlone(prev, key, res) ==
    [InitComparisonData EXCEPT
        ![key] = <<[faults |-> res.faults, hits |-> res.hits]>>]

\* updateMemoryComparison: prev => ({...prev, [algorithm]: {faults, hits}})
UpdateMemoryComparison(prev, key, res) ==
    [prev EXCEPT ![key] = <<[faults |-> res.faults, hits |-> res.hits]>>]

\* updateDiskComparison: prev => ({...prev, [algorithm]: {seekDistance, cylinders}})
UpdateDiskComparison(prev, key, res, cyls) ==
    [prev EXCEPT ![key] = <<[seekDistance |-> res.seekDistance,
                             cylinders |-> cyls]>>]

\* What the user types into the fields of the two tabs.
TabFramesTexts == {<< >>, <<"1">>, <<"2">>}

TabReferenceTexts == {<< >>, <<"1", " ", "2", " ", "1">>, <<"1", " ", "a">>}

TabCylindersTexts == {<< >>, <<"5">>}

TabHeadTexts == {<< >>, <<"2">>, <<"7">>}

TabQueueTexts == {<< >>, <<"4", ",", "0">>, <<"1", ",", "9">>}

\* Comparison entries left by earlier runs of the other tab.
EarlierMemoryEntries == {<< >>, <<[faults |-> 9, hits |-> 4]>>}

EarlierDiskEntries == {<< >>, <<[seekDistance |-> 314, cylinders |-> 200]>>}

\* The variables of the engine calls, which the handlers run to completion.
callVars == <<alg, pc, memVars, cylinders, start, requests, diskResult>>

\* A tab is mounted: its useState initial values, and the comparison data of
\* the provider, whose entries of the other tab may have been set before.
TabInit ==
    /\ ReplayIdle
    /\ alg = "handlers"
    /\ pc = "idle"
    /\ MemoryIdle
    /\ DiskIdle
    /\ framesText = << >>
    /\ referenceString = << >>
    /\ totalCylinders = << >>
    /\ headPosition = << >>
    /\ requestQueue = << >>
    /\ validation = NoValidation
    /\ error = << >>
    /\ tabResult = << >>
    /\ showResults = FALSE
    /\ cylinderCount = 0
    /\ simCalls = << >>
    /\ \/ /\ tab = "memory"
          /\ algorithm = "lru"
          /\ \E look \in EarlierDiskEntries, cscan \in EarlierDiskEntries :
                 comparisonData = [InitComparisonData EXCEPT
                                      !.look = look, !.cscan = cscan]
       \/ /\ tab = "disk"
          /\ algorithm = "look"
          /\ \E lru \in EarlierMemoryEntries, arb \in EarlierMemoryEntries :
                 comparisonData = [InitComparisonData EXCEPT
                                      !.lru = lru, !.arb = arb]

\* onChange / onValueChange of MemoryTab's inputs.
SetFrames ==
    /\ tab = "memory"
    /\ \E t \in TabFramesTexts : framesText' = t
    /\ UNCHANGED <<replayVars, referenceString, totalCylinders, headPosition, requestQueue,
                   validation, tab, algorithm, error, tabResult, showResults,
                   cylinderCount, comparisonData, simCalls, initialDirection,
                   callVars>>

SetReferenceString ==
    /\ tab = "memory"
    /\ \E t \in TabReferenceTexts : referenceString' = t
    /\ UNCHANGED <<replayVars, framesText, totalCylinders, headPosition, requestQueue,
                   validation, tab, algorithm, error, tabResult, showResults,
                   cylinderCount, comparisonData, simCalls, initialDirection,
                   callVars>>

SetMemoryAlgorithm ==
    /\ tab = "memory"
    /\ \E a \in {"lru", "arb"} : algorithm' = a
    /\ UNCHANGED <<replayVars, framesText, referenceString, totalCylinders, headPosition,
                   requestQueue, validation, tab, error, tabResult,
                   showResults, cylinderCount, comparisonData, simCalls,
                   initialDirection, callVars>>

\* MemoryTab.handleRun
MemoryHandleRun ==
    /\ tab = "memory"
    /\ LET v == ValidateMemoryInput(framesText, referenceString)
       IN  /\ validation' = v
           /\ IF ~v.valid
              THEN /\ error' = v.message
                   /\ simCalls' = << >>
                   /\ UNCHANGED <<tabResult, showResults, comparisonData>>
              ELSE LET n == EngineNumber(v.frameCount)
                       refs == Map(v.refArray, EngineNumber)
                       simulationResult ==
                           IF algorithm = "lru" THEN SimulateLRU(n, refs)
                           ELSE SimulateARB(n, refs)
                   IN  /\ error' = << >>
                       /\ simCalls' = IF algorithm = "lru"
                                      THEN <<"simulateLRU">>
                                      ELSE <<"simulateARB">>
                       /\ tabResult' = <<simulationResult>>
                       /\ showResults' = TRUE
                       /\ comparisonData' =
                              UpdateMemoryComparison(comparisonData, algorithm,
                                                     simulationResult)
    /\ UNCHANGED <<replayVars, framesText, referenceString, totalCylinders, headPosition,
                   requestQueue, tab, algorithm, cylinderCount,
                   initialDirection, callVars>>

\* MemoryTab.handleReset
MemoryHandleReset ==
    /\ tab = "memory"
    /\ framesText' = << >>
    /\ referenceString' = << >>
    /\ error' = << >>
    /\ showResults' = FALSE
    /\ tabResult' = << >>
    /\ simCalls' = << >>
    /\ UNCHANGED <<replayVars, totalCylinders, headPosition, requestQueue, validation, tab,
                   algorithm, cylinderCount, comparisonData, initialDirection,
                   callVars>>

\* onChange / onValueChange / onCheckedChange of DiskTab's inputs.
SetTotalCylinders ==
    /\ tab = "disk"
    /\ \E t \in TabCylindersTexts : totalCylinders' = t
    /\ UNCHANGED <<replayVars, framesText, referenceString, headPosition, requestQueue,
                   validation, tab, algorithm, error, tabResult, showResults,
                   cylinderCount, comparisonData, simCalls, initialDirection,
                   callVars>>

SetHeadPosition ==
    /\ tab = "disk"
    /\ \E t \in TabHeadTexts : headPosition' = t
    /\ UNCHANGED <<replayVars, framesText, referenceString, totalCylinders, requestQueue,
                   validation, tab, algorithm, error, tabResult, showResults,
                   cylinderCount, comparisonData, simCalls, initialDirection,
                   callVars>>

SetRequestQueue ==
    /\ tab = "disk"
    /\ \E t \in TabQueueTexts : requestQueue' = t
    /\ UNCHANGED <<replayVars, framesText, referenceString, totalCylinders, headPosition,
                   validation, tab, algorithm, error, tabResult, showResults,
                   cylinderCount, comparisonData, simCalls, initialDirection,
                   callVars>>

SetDiskAlgorithm ==
    /\ tab = "disk"
    /\ \E a \in {"look", "cscan"} : algorithm' = a
    /\ UNCHANGED <<replayVars, framesText, referenceString, totalCylinders, headPosition,
                   requestQueue, validation, tab, error, tabResult,
                   showResults, cylinderCount, comparisonData, simCalls,
                   initialDirection, callVars>>

SetInitialDirection ==
    /\ tab = "disk"
    /\ \E d \in BOOLEAN : initialDirection' = d
    /\ UNCHANGED <<replayVars, framesText, referenceString, totalCylinders, headPosition,
                   requestQueue, validation, tab, algorithm, error, tabResult,
                   showResults, cylinderCount, comparisonData, simCalls,
                   callVars>>

\* DiskTab.handleRun
DiskHandleRun ==
    /\ tab = "disk"
    /\ LET v == ValidateDiskInput(totalCylinders, headPosition, requestQueue)
       IN  /\ validation' = v
           /\ IF ~v.valid
              THEN /\ error' = v.message
                   /\ simCalls' = << >>
                   /\ UNCHANGED <<tabResult, showResults, cylinderCount,
                                  comparisonData>>
              ELSE LET cyls == EngineNumber(v.cylinders)
                       head == EngineNumber(v.start)
                       reqs == Map(v.requestArray, EngineNumber)
                       simulationResult ==
                           IF algorithm = "cscan"
                           THEN SimulateCSCAN(cyls, head, reqs, initialDirection)
                           ELSE SimulateLOOK(cyls, head, reqs, initialDirection)
                   IN  /\ error' = << >>
                       /\ simCalls' = IF algorithm = "cscan"
                                      THEN <<"simulateCSCAN">>
                                      ELSE <<"simulateLOOK">>
                       /\ tabResult' = <<simulationResult>>
                       /\ cylinderCount' = cyls
                       /\ showResults' = TRUE
                       /\ comparisonData' =
                              UpdateDiskComparison(comparisonData, algorithm,
                                                   simulationResult, cyls)
    /\ UNCHANGED <<replayVars, framesText, referenceString, totalCylinders, headPosition,
                   requestQueue, tab, algorithm, initialDirection, callVars>>

\* DiskTab.handleReset
DiskHandleReset ==
    /\ tab = "disk"
    /\ totalCylinders' = << >>
    /\ headPosition' = << >>
    /\ requestQueue' = << >>
    /\ error' = << >>
    /\ showResults' = FALSE
    /\ tabResult' = << >>
    /\ simCalls' = << >>
    /\ UNCHANGED <<replayVars, framesText, referenceString, validation, tab, algorithm,
                   cylinderCount, comparisonData, initialDirection, callVars>>

TabNext ==
    \/ SetFrames \/ SetReferenceString \/ SetMemoryAlgorithm
    \/ MemoryHandleRun \/ MemoryHandleReset
    \/ SetTotalCylinders \/ SetHeadPosition \/ SetRequestQueue
    \/ SetDiskAlgorithm \/ SetInitialDirection
    \/ DiskHandleRun \/ DiskHandleReset

TabSpec == TabInit /\ [][TabNext]_vars

\* ------------------------------------------------------ replay of a result
\* DiskVisualization and MemoryVisualization replay a result the engine has
\* returned.  Their state is set by the buttons and the slider and by the
\* animate callback, which the play/pause effect registers with
\* requestAnimationFrame.  What React fixes is modelled as React documents
\* it: a handler and a callback read the state of the render that created
\* them, an updater (prev => ...) is applied to the latest state, the
\* component is rendered again before the next handler runs, and the effect
\* of a render (its cleanup first) runs after that render.  Whether the effect
\* has run when the next animation frame fires is not fixed by the code:
\* both orders are behaviours.  An animate callback that has moved the index
\* registers itself again, but its next move is due one step delay later, by
\* which time the effect has replaced it; it is modelled as used up.
ReplayDiskWorkloads ==
    {[cylinders |-> 5, start |-> 2, requests |-> <<4, 0>>],
     [cylinders |-> 5, start |-> 2, requests |-> <<3>>],
     [cylinders |-> 5, start |-> 2, requests |-> <<3, 4, 3>>],
     [cylinders |-> 5, start |-> 4, requests |-> <<1, 4>>],
     [cylinders |-> 1, start |-> 0, requests |-> <<0>>]}

ReplayMemoryWorkloads ==
    {[frameCount |-> 1, refString |-> <<1>>],
     [frameCount |-> 2, refString |-> <<1, 2, 1, 3>>]}

\* result.sequence.length and result.steps.length
SequenceLength == Len(diskResult.sequence)

StepsLength == Len(result.steps)

\* The component is mounted with a result: useState(1) / useState(0),
\* useState(false), useRef(null); the effect has run for this first render
\* and, nothing playing, has registered no callback.
ReplayInit ==
    /\ pc = "replay"
    /\ UiIdle
    /\ isPlaying = FALSE
    /\ animationRef = << >>
    /\ animationStep = 1
    /\ currentStep = 0
    /\ \/ /\ view = "disk"
          /\ alg \in {"LOOK", "CSCAN"}
          /\ MemoryIdle
          /\ initialDirection \in BOOLEAN
          /\ \E w \in ReplayDiskWorkloads :
                 /\ cylinders = w.cylinders
                 /\ start = w.start
                 /\ requests = w.requests
          /\ diskResult =
                 IF alg = "LOOK"
                 THEN SimulateLOOK(cylinders, start, requests, initialDirection)
                 ELSE SimulateCSCAN(cylinders, start, requests, initialDirection)
          /\ effectDeps = <<FALSE, 1>>
       \/ /\ view = "memory"
          /\ alg \in {"LRU", "ARB"}
          /\ DiskIdle
          /\ \E w \in ReplayMemoryWorkloads :
                 /\ frameCount = w.frameCount
                 /\ refString = w.refString
          /\ result = IF alg = "LRU" THEN SimulateLRU(frameCount, refString)
                      ELSE SimulateARB(frameCount, refString)
          /\ i = 0
          /\ frames = << >>
          /\ orderOfUse = << >>
          /\ refBits = << >>
          /\ pointer = 0
          /\ framesFilled = 0
          /\ step = NoStep
          /\ foundVictim = FALSE
          /\ loopCount = 0
          /\ startPointer = 0
          /\ iterations = 0
          /\ effectDeps = <<FALSE, 0>>

\* What the replay leaves alone: the result and the tabs.
ReplayFrame ==
    UNCHANGED <<view, alg, pc, memVars, diskVars, uiVars>>

\* The effect of the last render has not run yet.
DiskEffectPending == effectDeps # <<isPlaying, animationStep>>

MemoryEffectPending == effectDeps # <<isPlaying, currentStep>>

\* let seekDistanceSoFar = 0; for (let i = 1; i < animationStep; i++)
\*     seekDistanceSoFar += Math.abs(result.sequence[i] - result.sequence[i - 1])
\* Beyond the end of the sequence the terms are NaN.
RECURSIVE SeekDistanceSoFar(_, _)
SeekDistanceSoFar(sequence, shown) ==
    IF shown <= 1 THEN 0
    ELSE SeekDistanceSoFar(sequence, shown - 1)
             + Abs(sequence[shown] - sequence[shown - 1])

\* DiskVisualization: the play/pause effect runs for the last render.  The
\* cleanup of the run before and the branch if (!isPlaying) cancel the
\* registered callback; when playing, animate is registered, and it holds the
\* animationStep of this render.
DiskPlayEffect ==
    /\ view = "disk"
    /\ DiskEffectPending
    /\ animationRef' = IF isPlaying THEN <<animationStep>> ELSE << >>
    /\ effectDeps' = <<isPlaying, animationStep>>
    /\ UNCHANGED <<animationStep, currentStep, isPlaying>>
    /\ ReplayFrame

\* DiskVisualization: the registered animate callback fires when a step is
\* due (elapsed >= stepDelay).
DiskAnimate ==
    /\ view = "disk"
    /\ animationRef # << >>
    /\ IF animationRef[1] < SequenceLength
       THEN /\ animationStep' = animationStep + 1
            /\ UNCHANGED isPlaying
       ELSE /\ isPlaying' = FALSE
            /\ UNCHANGED animationStep
    /\ animationRef' = << >>
    /\ UNCHANGED <<currentStep, effectDeps>>
    /\ ReplayFrame

\* DiskVisualization.handlePlay
DiskVizHandlePlay ==
    /\ view = "disk"
    /\ ~DiskEffectPending
    /\ ~isPlaying
    /\ animationStep' = IF animationStep >= SequenceLength THEN 1 ELSE animationStep
    /\ isPlaying' = TRUE
    /\ UNCHANGED <<currentStep, animationRef, effectDeps>>
    /\ ReplayFrame

\* DiskVisualization.handlePause
DiskVizHandlePause ==
    /\ view = "disk"
    /\ ~DiskEffectPending
    /\ isPlaying
    /\ isPlaying' = FALSE
    /\ UNCHANGED <<animationStep, currentStep, animationRef, effectDeps>>
    /\ ReplayFrame

\* DiskVisualization.handleReset
DiskVizHandleReset ==
    /\ view = "disk"
    /\ ~DiskEffectPending
    /\ isPlaying' = FALSE
    /\ animationStep' = 1
    /\ UNCHANGED <<currentStep, animationRef, effectDeps>>
    /\ ReplayFrame

\* DiskVisualization.handleStepForward
DiskVizHandleStepForward ==
    /\ view = "disk"
    /\ ~DiskEffectPending
    /\ animationStep < SequenceLength
    /\ animationStep' = animationStep + 1
    /\ UNCHANGED <<currentStep, isPlaying, animationRef, effectDeps>>
    /\ ReplayFrame

\* DiskVisualization.handleStepBack
DiskVizHandleStepBack ==
    /\ view = "disk"
    /\ ~DiskEffectPending
    /\ animationStep > 1
    /\ animationStep' = animationStep - 1
    /\ UNCHANGED <<currentStep, isPlaying, animationRef, effectDeps>>
    /\ ReplayFrame

\* DiskVisualization.handleSliderChange(value): the slider gives a value
\* from its min (1) to its max (result.sequence.length).
DiskVizHandleSliderChange ==
    /\ view = "disk"
    /\ ~DiskEffectPending
    /\ \E value \in 1 .. SequenceLength : animationStep' = value
    /\ isPlaying' = FALSE
    /\ UNCHANGED <<currentStep, animationRef, effectDeps>>
    /\ ReplayFrame

\* MemoryVisualization: the play/pause effect runs for the last render.
MemoryPlayEffect ==
    /\ view = "memory"
    /\ MemoryEffectPending
    /\ animationRef' = IF isPlaying THEN <<currentStep>> ELSE << >>
    /\ effectDeps' = <<isPlaying, currentStep>>
    /\ UNCHANGED <<animationStep, currentStep, isPlaying>>
    /\ ReplayFrame

\* MemoryVisualization: the registered animate callback fires when a step is
\* due.
MemoryAnimate ==
    /\ view = "memory"
    /\ animationRef # << >>
    /\ IF animationRef[1] < StepsLength - 1
       THEN /\ currentStep' = currentStep + 1
            /\ UNCHANGED isPlaying
       ELSE /\ isPlaying' = FALSE
            /\ UNCHANGED currentStep
    /\ animationRef' = << >>
    /\ UNCHANGED <<animationStep, effectDeps>>
    /\ ReplayFrame

\* MemoryVisualization.handlePlay
MemoryVizHandlePlay ==
    /\ view = "memory"
    /\ ~MemoryEffectPending
    /\ ~isPlaying
    /\ currentStep' = IF currentStep = StepsLength - 1 THEN 0 ELSE currentStep
    /\ isPlaying' = TRUE
    /\ UNCHANGED <<animationStep, animationRef, effectDeps>>
    /\ ReplayFrame

\* MemoryVisualization.handlePause
MemoryVizHandlePause ==
    /\ view = "memory"
    /\ ~MemoryEffectPending
    /\ isPlaying
    /\ isPlaying' = FALSE
    /\ UNCHANGED <<animationStep, currentStep, animationRef, effectDeps>>
    /\ ReplayFrame

\* MemoryVisualization.handleReset
MemoryVizHandleReset ==
    /\ view = "memory"
    /\ ~MemoryEffectPending
    /\ isPlaying' = FALSE
    /\ currentStep' = 0
    /\ UNCHANGED <<animationStep, animationRef, effectDeps>>
    /\ ReplayFrame

\* MemoryVisualization.handleStepForward
MemoryVizHandleStepForward ==
    /\ view = "memory"
    /\ ~MemoryEffectPending
    /\ currentStep < StepsLength - 1
    /\ currentStep' = currentStep + 1
    /\ UNCHANGED <<animationStep, isPlaying, animationRef, effectDeps>>
    /\ ReplayFrame

\* MemoryVisualization.handleStepBack
MemoryVizHandleStepBack ==
    /\ view = "memory"
    /\ ~MemoryEffectPending
    /\ currentStep > 0
    /\ currentStep' = currentStep - 1
    /\ UNCHANGED <<animationStep, isPlaying, animationRef, effectDeps>>
    /\ ReplayFrame

\* MemoryVisualization.handleSliderChange(value): the slider gives a value
\* from its min (0) to its max (result.steps.length - 1).
MemoryVizHandleSliderChange ==
    /\ view = "memory"
    /\ ~MemoryEffectPending
    /\ \E value \in 0 .. (StepsLength - 1) : currentStep' = value
    /\ isPlaying' = FALSE
    /\ UNCHANGED <<animationStep, animationRef, effectDeps>>
    /\ ReplayFrame

ReplayNext ==
    \/ DiskPlayEffect
    \/ DiskAnimate
    \/ DiskVizHandlePlay
    \/ DiskVizHandlePause
    \/ DiskVizHandleReset
    \/ DiskVizHandleStepForward
    \/ DiskVizHandleStepBack
    \/ DiskVizHandleSliderChange
    \/ MemoryPlayEffect
    \/ MemoryAnimate
    \/ MemoryVizHandlePlay
    \/ MemoryVizHandlePause
    \/ MemoryVizHandleReset
    \/ MemoryVizHandleStepForward
    \/ MemoryVizHandleStepBack
    \/ MemoryVizHandleSliderChange

ReplaySpec == ReplayInit /\ [][ReplayNext]_vars

\* ================================================================ claims
\* Helpers of the statements below.
Steps == result.steps

LastStep == Steps[Len(Steps)]

\* The step being processed is a fault of simulateLRU (the page is not resident).
LRUFaultPending ==
    /\ alg = "LRU"
    /\ pc = "loop"
    /\ i < Len(refString)
    /\ ~Includes(frames, Page)

\* The position (1-based) of the most recent reference to page p among the
\* first k references; 0 when p was not referenced.
LastUse(p, k) ==
    LET uses == {j \in 1 .. k : refString[j] = p}
    IN  IF uses = {} THEN 0 ELSE CHOOSE j \in uses : \A l \in uses : l <= j

\* C1: the returned result has one step per reference, in order, and its
\* fault and hit counters count the fault steps and the hit steps, so that
\* faults + hits is the length of the reference string (both functions).
C1_ResultCounts ==
    pc = "done" =>
        /\ Len(Steps) = Len(refString)
        /\ \A k \in 1 .. Len(Steps) : Steps[k].reference = refString[k]
        /\ result.faults = Cardinality({k \in 1 .. Len(Steps) : Steps[k].isFault})
        /\ result.hits = Cardinality({k \in 1 .. Len(Steps) : ~Steps[k].isFault})
        /\ result.faults + result.hits = Len(refString)

C1_Witness ==
    /\ pc = "done"
    /\ Len(refString) = MaxRefs
    /\ result.hits > 1
    /\ result.faults > frameCount

\* C2: on a fault of simulateLRU with no empty frame, the victim is the first
\* element of the recency order as it stood before the step; the step records
\* it as replacedFrame, the frame holds the new page afterwards and is the
\* last element of the order; and the page it held is the resident page whose
\* most recent reference is furthest in the past.
C2_LRUEvictsLeastRecent ==
    [][ (LRUFaultPending /\ ~Includes(frames, EMPTY)) =>
            LET victim == orderOfUse[1]
                page == Page
            IN  /\ result'.steps[Len(result'.steps)].replacedFrame = <<victim>>
                /\ frames' = [frames EXCEPT ![victim] = page]
                /\ orderOfUse'[Len(orderOfUse')] = victim
                /\ \A f \in Indices(frameCount) \ {victim} :
                       LastUse(frames[victim], i) < LastUse(frames[f], i) ]_vars

C2_Witness ==
    /\ alg = "LRU"
    /\ Len(Steps) > 1
    /\ LastStep.isFault
    /\ ~Includes(LastStep.frames, EMPTY)
    /\ frameCount > 1
    /\ LastStep.replacedFrame # <<0>>
    /\ Steps[Len(Steps) - 1].orderOfUse[1] = LastStep.replacedFrame[1]

\* C3: simulateLRU with 3 frames on 7 0 1 2 0 3 0 4 2 3 0 3 2 returns
\* 9 faults and 4 hits.
C3_Scenario1 ==
    ( /\ alg = "LRU"
      /\ frameCount = Scenario1.frameCount
      /\ refString = Scenario1.refString
      /\ pc = "done" ) =>
        (result.faults = 9 /\ result.hits = 4)

C3_Witness ==
    /\ alg = "LRU"
    /\ frameCount = Scenario1.frameCount
    /\ refString = Scenario1.refString
    /\ pc = "done"
    /\ Len(Steps) = 13

\* A recorded step of simulateARB that ran the victim search: a fault that
\* started with every frame occupied.
IsSweepStep(st) == st.isFault /\ ~Includes(st.frames, EMPTY)

\* The frame reached from the step's starting pointer after d moves of the hand.
ClockFrame(st, d) == (st.pointerPosition + d) % frameCount

\* The numbers of moves after which the hand is on a frame whose bit was 0.
ZeroOffsets(st) ==
    {d \in Indices(frameCount) : st.refBits[ClockFrame(st, d)] = 0}

\* The victim the clock policy names: the first frame in clock order whose bit
\* is 0, or the frame under the starting pointer when every bit is 1.
ClockVictim(st) ==
    IF ZeroOffsets(st) = {} THEN st.pointerPosition
    ELSE ClockFrame(st, Min(ZeroOffsets(st)))

\* The frames the hand passes over before it stops on the victim.
PassedOver(st) ==
    IF ZeroOffsets(st) = {} THEN Indices(frameCount) \ {ClockVictim(st)}
    ELSE {ClockFrame(st, d) : d \in 0 .. (Min(ZeroOffsets(st)) - 1)}

\* C4: in every step of simulateARB that faults with all frames full, the
\* victim is the first frame in clock order from the starting pointer whose
\* bit is 0 (the starting frame when every bit is 1); frames passed over end
\* with bit 0, frames not passed over keep their bit, the victim holds the new
\* page with bit 1, and the pointer ends just after the victim.
C4_ClockVictim ==
    alg = "ARB" =>
        \A k \in 1 .. Len(Steps) :
            LET st == Steps[k]
                victim == ClockVictim(st)
            IN  IsSweepStep(st) =>
                    /\ st.replacedFrame = <<victim>>
                    /\ st.framesAfter = [st.frames EXCEPT ![victim] = st.reference]
                    /\ \A f \in Indices(frameCount) :
                           st.refBitsAfter[f] =
                               IF f = victim THEN 1
                               ELSE IF f \in PassedOver(st) THEN 0
                               ELSE st.refBits[f]
                    /\ st.pointerPositionAfter = (victim + 1) % frameCount

\* A search that passes over a frame with bit 1, clears it, and evicts a later
\* frame with bit 0 while a third frame keeps its bit.
C4_Witness ==
    /\ alg = "ARB"
    /\ Len(Steps) > 0
    /\ IsSweepStep(LastStep)
    /\ ZeroOffsets(LastStep) # {}
    /\ PassedOver(LastStep) # {}
    /\ LastStep.replacedFrame = <<ClockVictim(LastStep)>>
    /\ \E f \in Indices(frameCount) :
           f \notin PassedOver(LastStep) \cup {ClockVictim(LastStep)}

\* C5: a step of simulateARB has resetBits set exactly when it is a fault with
\* all frames full whose search started with every reference bit equal to 1.
C5_ResetFlag ==
    alg = "ARB" =>
        \A k \in 1 .. Len(Steps) :
            LET st == Steps[k]
            IN  st.resetBits <=>
                    (IsSweepStep(st) /\ \A f \in Indices(frameCount) : st.refBits[f] = 1)

\* A run with a flagged search and with an unflagged search, a hit and a fill.
C5_Witness ==
    /\ alg = "ARB"
    /\ \E k \in 1 .. Len(Steps) : Steps[k].resetBits
    /\ \E k \in 1 .. Len(Steps) : IsSweepStep(Steps[k]) /\ ~Steps[k].resetBits
    /\ \E k \in 1 .. Len(Steps) :
           /\ ~Steps[k].isFault
           /\ \A f \in Indices(frameCount) :
                  Steps[k].frames[f] # EMPTY => Steps[k].refBits[f] = 1

\* C6: after every step of simulateARB the frame that holds the referenced
\* page has reference bit 1.
C6_ReferencedBitSet ==
    alg = "ARB" =>
        \A k \in 1 .. Len(Steps) :
            LET st == Steps[k]
            IN  /\ Includes(st.framesAfter, st.reference)
                /\ \A f \in Indices(frameCount) :
                       st.framesAfter[f] = st.reference => st.refBitsAfter[f] = 1

\* A hit on a page whose bit had been cleared by an earlier search.
C6_Witness ==
    /\ alg = "ARB"
    /\ Len(Steps) > 0
    /\ ~LastStep.isFault
    /\ LastStep.refBits[IndexOf(LastStep.frames, LastStep.reference)] = 0
    /\ LastStep.refBitsAfter[IndexOf(LastStep.frames, LastStep.reference)] = 1

\* C7: the forced eviction of simulateARB (taken when loopCount > 1) is never
\* taken: no victim search completes a second full revolution.
C7_NoSecondRevolution == loopCount <= 1

\* A search that completed one revolution and then found its victim.
C7_Witness ==
    /\ alg = "ARB"
    /\ pc = "sweep"
    /\ foundVictim
    /\ loopCount = 1
    /\ frameCount > 1

\* C8: every call of simulateLRU and simulateARB returns, and a victim search
\* of simulateARB runs the body of its loop at most frameCount + 1 times.
C8_Terminates ==
    /\ [](iterations <= frameCount + 1)
    /\ <>(pc = "done")

\* A call of simulateARB that returned after a search of frameCount + 1 turns.
C8_Witness ==
    /\ alg = "ARB"
    /\ pc = "done"
    /\ frameCount > 1
    /\ iterations = frameCount + 1

\* The pages referenced by the first k references.
Referenced(k) == {refString[j] : j \in 1 .. k}

\* C9: in every recorded step of both functions, frames and framesAfter have
\* exactly frameCount slots, each EMPTY or a page referenced at or before
\* that step.
C9_FrameTables ==
    \A k \in 1 .. Len(Steps) :
        /\ DOMAIN Steps[k].frames = Indices(frameCount)
        /\ DOMAIN Steps[k].framesAfter = Indices(frameCount)
        /\ \A f \in Indices(frameCount) :
               /\ Steps[k].frames[f] \in {EMPTY} \cup Referenced(k)
               /\ Steps[k].framesAfter[f] \in {EMPTY} \cup Referenced(k)

\* A returned trace whose last step has every frame occupied, by distinct pages.
C9_Witness ==
    /\ pc = "done"
    /\ frameCount = MaxFrames
    /\ Len(Steps) = Len(refString)
    /\ ~Includes(LastStep.framesAfter, EMPTY)
    /\ Includes(Steps[1].framesAfter, EMPTY)
    /\ Cardinality({LastStep.framesAfter[f] : f \in Indices(frameCount)}) = frameCount

\* C10: on a fault of simulateLRU while a frame is empty, the page goes into
\* the lowest-indexed empty frame, every other frame is left alone, and that
\* index is appended to the recency order; a step of simulateLRU changes an
\* occupied frame only when no frame is empty.
C10_LRUFillsLowestEmpty ==
    [][ /\ (LRUFaultPending /\ Includes(frames, EMPTY)) =>
               LET lowest == Min({f \in Indices(frameCount) : frames[f] = EMPTY})
                   page == Page
               IN  /\ frames' = [frames EXCEPT ![lowest] = page]
                   /\ orderOfUse' = Append(orderOfUse, lowest)
                   /\ result'.steps[Len(result'.steps)].replacedFrame = <<lowest>>
        /\ alg = "LRU" =>
               ((\E f \in Indices(frameCount) :
                     frames[f] # EMPTY /\ frames'[f] # frames[f])
                    => ~Includes(frames, EMPTY)) ]_vars

\* A fill of frame 1 while frame 0 is occupied and frame 2 is still empty.
C10_Witness ==
    /\ alg = "LRU"
    /\ Len(Steps) > 0
    /\ LastStep.isFault
    /\ LastStep.frames[0] # EMPTY
    /\ Includes(LastStep.frames, EMPTY)
    /\ LastStep.replacedFrame = <<1>>
    /\ Includes(LastStep.framesAfter, EMPTY)
    /\ LastStep.orderOfUse[Len(LastStep.orderOfUse)] = 1

\* The step being processed is a hit of simulateLRU (the page is resident).
LRUHitPending ==
    /\ alg = "LRU"
    /\ pc = "loop"
    /\ i < Len(refString)
    /\ Includes(frames, Page)

\* The sequence s without the elements equal to v, in the order of s.
Without(s, v) == SelectSeq(s, LAMBDA x : x # v)

\* C11: on a hit of simulateLRU the hit count grows by one, the fault count
\* stays, the frame holding the page becomes the last element of the recency
\* order (the order keeps its length), and the other frame indices keep their
\* relative order.
C11_LRUHitMovesToEnd ==
    [][ LRUHitPending =>
            LET frame == Min({f \in Indices(frameCount) : frames[f] = Page})
            IN  /\ result'.hits = result.hits + 1
                /\ result'.faults = result.faults
                /\ Len(orderOfUse') = Len(orderOfUse)
                /\ orderOfUse'[Len(orderOfUse')] = frame
                /\ Without(orderOfUse', frame) = Without(orderOfUse, frame) ]_vars

\* A hit on the least recently used of three occupied frames.
C11_Witness ==
    /\ alg = "LRU"
    /\ Len(Steps) > 1
    /\ ~LastStep.isFault
    /\ Len(LastStep.orderOfUse) = 3
    /\ Steps[Len(Steps) - 1].orderOfUse[1] = LastStep.orderOfUse[3]
    /\ Steps[Len(Steps) - 1].orderOfUse[2] = LastStep.orderOfUse[1]
    /\ Steps[Len(Steps) - 1].orderOfUse[3] = LastStep.orderOfUse[2]
    /\ result.hits > 0

\* The recency orders a recorded step of simulateLRU carries: MemoryStep has
\* the single field orderOfUse.
RecordedOrders(st) == {st.orderOfUse}

\* C12 (as claimed): the step pushed by an iteration of simulateLRU records
\* the recency order as it was at the start of the iteration and as it is at
\* its end.
C12_RecordsOrderBeforeAndAfter ==
    [][ (alg = "LRU" /\ pc = "loop" /\ i < Len(refString)) =>
            /\ orderOfUse \in RecordedOrders(result'.steps[Len(result'.steps)])
            /\ orderOfUse' \in RecordedOrders(result'.steps[Len(result'.steps)])
      ]_vars

\* A recorded step of simulateARB that is a hit.
IsARBHit(st) == ~st.isFault

\* C13: a hit of simulateARB sets the bit of the frame holding the page to 1,
\* leaves every other bit, the frame table and the pointer as they were.
C13_ARBHit ==
    alg = "ARB" =>
        \A k \in 1 .. Len(Steps) :
            LET st == Steps[k]
            IN  IsARBHit(st) =>
                    /\ st.framesAfter = st.frames
                    /\ st.pointerPositionAfter = st.pointerPosition
                    /\ \A f \in Indices(frameCount) :
                           st.refBitsAfter[f] =
                               IF st.frames[f] = st.reference THEN 1
                               ELSE st.refBits[f]
                    /\ k < Len(Steps) =>
                           Steps[k + 1].pointerPosition = st.pointerPosition

\* A hit that sets a cleared bit while another frame keeps bit 0 and a third
\* keeps bit 1.
C13_Witness ==
    /\ alg = "ARB"
    /\ Len(Steps) > 0
    /\ IsARBHit(LastStep)
    /\ \E f, g, h \in Indices(frameCount) :
           /\ LastStep.frames[f] = LastStep.reference
           /\ LastStep.refBits[f] = 0 /\ LastStep.refBitsAfter[f] = 1
           /\ g # f /\ LastStep.refBitsAfter[g] = 0
           /\ h # f /\ LastStep.refBitsAfter[h] = 1

\* A recorded step of simulateARB that filled an empty frame.
IsARBFill(st) == st.isFault /\ Includes(st.frames, EMPTY)

\* C14: a fault of simulateARB while a frame is empty puts the page in the
\* lowest-indexed empty frame, sets that frame's bit, changes no other frame
\* or bit, and leaves the pointer just after the filled frame.
C14_ARBFill ==
    alg = "ARB" =>
        \A k \in 1 .. Len(Steps) :
            LET st == Steps[k]
                lowest == Min({f \in Indices(frameCount) : st.frames[f] = EMPTY})
            IN  IsARBFill(st) =>
                    /\ st.replacedFrame = <<lowest>>
                    /\ st.framesAfter = [st.frames EXCEPT ![lowest] = st.reference]
                    /\ st.refBitsAfter = [st.refBits EXCEPT ![lowest] = 1]
                    /\ st.pointerPositionAfter = (lowest + 1) % frameCount

\* A fill of a middle frame, and a fill of the last frame that wraps the
\* pointer to 0.
C14_Witness ==
    /\ alg = "ARB"
    /\ frameCount = 3
    /\ \E k \in 1 .. Len(Steps) :
           /\ IsARBFill(Steps[k])
           /\ Steps[k].replacedFrame = <<1>>
           /\ Includes(Steps[k].framesAfter, EMPTY)
           /\ Steps[k].pointerPositionAfter = 2
    /\ \E k \in 1 .. Len(Steps) :
           /\ IsARBFill(Steps[k])
           /\ Steps[k].replacedFrame = <<2>>
           /\ Steps[k].pointerPositionAfter = 0

\* ------------------------------------------------- disk engine statements
\* A disk function has returned.
DiskReturned == alg \in {"LOOK", "CSCAN"} /\ pc = "done"

Visited == diskResult.sequence

Cylinders == 0 .. (cylinders - 1)

\* How often v occurs in the sequence s.
CountIn(s, v) == Cardinality({k \in 1 .. Len(s) : s[k] = v})

\* The numbers of queued requests above and below the start cylinder.
NumHigher == Cardinality({k \in 1 .. Len(requests) : requests[k] > start})

NumLower == Cardinality({k \in 1 .. Len(requests) : requests[k] < start})

IsNonDecreasing(s) == \A k \in 1 .. (Len(s) - 1) : s[k] <= s[k + 1]

IsNonIncreasing(s) == \A k \in 1 .. (Len(s) - 1) : s[k] >= s[k + 1]

\* seg holds exactly the queued requests above start, each as often as queued.
ServesHigher(seg) ==
    /\ \A k \in 1 .. Len(seg) : seg[k] > start
    /\ \A v \in Cylinders : v > start => CountIn(seg, v) = CountIn(requests, v)

\* seg holds exactly the queued requests below start, each as often as queued.
ServesLower(seg) ==
    /\ \A k \in 1 .. Len(seg) : seg[k] < start
    /\ \A v \in Cylinders : v < start => CountIn(seg, v) = CountIn(requests, v)

\* The sum of the absolute differences of consecutive elements of s.
RECURSIVE SumOfMoves(_)
SumOfMoves(s) ==
    IF Len(s) < 2 THEN 0
    ELSE SumOfMoves(SubSeq(s, 1, Len(s) - 1))
             + (IF s[Len(s)] >= s[Len(s) - 1]
                THEN s[Len(s)] - s[Len(s) - 1]
                ELSE s[Len(s) - 1] - s[Len(s)])

\* C15: every element of the sequence returned by simulateLOOK and by
\* simulateCSCAN is a cylinder in 0 .. cylinders-1, and the first is start.
C15_SequenceInRange ==
    DiskReturned =>
        /\ Len(Visited) >= 1
        /\ Visited[1] = start
        /\ \A k \in 1 .. Len(Visited) : Visited[k] \in Cylinders

\* A C-SCAN run that inserted both boundaries where no request lies.
C15_Witness ==
    /\ DiskReturned
    /\ alg = "CSCAN"
    /\ CountIn(requests, 0) = 0
    /\ CountIn(requests, cylinders - 1) = 0
    /\ CountIn(Visited, 0) = 1
    /\ CountIn(Visited, cylinders - 1) = 1
    /\ cylinders = MaxCylinders

\* C16: simulateLOOK returns start, then the requests on the side of the
\* initial direction in the order of that direction, then the requests on the
\* other side in the opposite order: one turn at most, and no cylinder beyond
\* the extreme requests.
C16_LOOKOrder ==
    (DiskReturned /\ alg = "LOOK") =>
        LET first == IF initialDirection THEN NumHigher ELSE NumLower
            sweep1 == SubSeq(Visited, 2, 1 + first)
            sweep2 == SubSeq(Visited, 2 + first, Len(Visited))
            reach == {start} \cup {requests[k] : k \in 1 .. Len(requests)}
        IN  /\ Len(Visited) = 1 + NumHigher + NumLower
            /\ Visited[1] = start
            /\ IF initialDirection
               THEN /\ IsNonDecreasing(sweep1) /\ ServesHigher(sweep1)
                    /\ IsNonIncreasing(sweep2) /\ ServesLower(sweep2)
               ELSE /\ IsNonIncreasing(sweep1) /\ ServesLower(sweep1)
                    /\ IsNonDecreasing(sweep2) /\ ServesHigher(sweep2)
            /\ \E h \in 1 .. Len(Visited) :
                   \/ /\ IsNonDecreasing(SubSeq(Visited, 1, h))
                      /\ IsNonIncreasing(SubSeq(Visited, h, Len(Visited)))
                   \/ /\ IsNonIncreasing(SubSeq(Visited, 1, h))
                      /\ IsNonDecreasing(SubSeq(Visited, h, Len(Visited)))
            /\ \A k \in 1 .. Len(Visited) :
                   /\ \E r \in reach : r <= Visited[k]
                   /\ \E r \in reach : r >= Visited[k]

\* An upward LOOK run over an unsorted queue with two requests on each side.
C16_Witness ==
    /\ DiskReturned
    /\ alg = "LOOK"
    /\ initialDirection
    /\ NumHigher = 2
    /\ NumLower = 2
    /\ requests[1] > requests[2]
    /\ requests[3] < requests[4]
    /\ Visited[2] < Visited[3]
    /\ Visited[4] > Visited[5]

\* C17: the seekDistance returned by simulateLOOK is the sum of the absolute
\* differences of consecutive elements of the returned sequence.
C17_LOOKSeekDistance ==
    (DiskReturned /\ alg = "LOOK") =>
        diskResult.seekDistance = SumOfMoves(Visited)

\* A downward LOOK run that turns: down to the lowest request, up to the highest.
C17_Witness ==
    /\ DiskReturned
    /\ alg = "LOOK"
    /\ ~initialDirection
    /\ NumLower > 0
    /\ NumHigher > 0
    /\ diskResult.seekDistance
           = (start - Visited[1 + NumLower])
                 + (Visited[Len(Visited)] - Visited[1 + NumLower])
    /\ diskResult.seekDistance > cylinders

\* A C-SCAN run wraps when a request lies on the side opposite to the
\* initial direction.
Wraps == IF initialDirection THEN NumLower > 0 ELSE NumHigher > 0

\* C18: simulateCSCAN serves the requests on the side of the initial
\* direction in the order of that direction; only if a request lies on the
\* other side it then visits the boundary ahead (unless the head is already
\* there), then the opposite boundary, then the other side's requests in the
\* same direction as before.
C18_CSCANOrder ==
    (DiskReturned /\ alg = "CSCAN") =>
        LET first == IF initialDirection THEN NumHigher ELSE NumLower
            second == IF initialDirection THEN NumLower ELSE NumHigher
            ahead == IF initialDirection THEN cylinders - 1 ELSE 0
            behind == IF initialDirection THEN 0 ELSE cylinders - 1
            sweep1 == SubSeq(Visited, 2, 1 + first)
            inserted == IF ~Wraps THEN << >>
                        ELSE IF Visited[1 + first] = ahead THEN <<behind>>
                        ELSE <<ahead, behind>>
            sweep2 == SubSeq(Visited, 2 + first + Len(inserted), Len(Visited))
        IN  /\ Len(Visited) = 1 + first + Len(inserted) + second
            /\ Visited[1] = start
            /\ SubSeq(Visited, 2 + first, 1 + first + Len(inserted)) = inserted
            /\ IF initialDirection
               THEN /\ IsNonDecreasing(sweep1) /\ ServesHigher(sweep1)
                    /\ IsNonDecreasing(sweep2) /\ ServesLower(sweep2)
               ELSE /\ IsNonIncreasing(sweep1) /\ ServesLower(sweep1)
                    /\ IsNonIncreasing(sweep2) /\ ServesHigher(sweep2)

\* An upward C-SCAN run whose last higher request is the top cylinder, so
\* that only the wrap point 0 is inserted before two lower requests.
C18_Witness ==
    /\ DiskReturned
    /\ alg = "CSCAN"
    /\ initialDirection
    /\ NumHigher > 0
    /\ NumLower = 2
    /\ Visited[1 + NumHigher] = cylinders - 1
    /\ Visited[2 + NumHigher] = 0
    /\ Len(Visited) = 2 + NumHigher + NumLower
    /\ Visited[Len(Visited) - 1] < Visited[Len(Visited)]

\* C19: the seekDistance returned by simulateCSCAN is the sum of the absolute
\* differences of consecutive elements of its sequence, less cylinders - 1
\* (the jump between the boundaries) when the run wraps.
C19_CSCANSeekDistance ==
    (DiskReturned /\ alg = "CSCAN") =>
        diskResult.seekDistance =
            SumOfMoves(Visited) - (IF Wraps THEN cylinders - 1 ELSE 0)

\* A downward C-SCAN run that moves from its last lower request to cylinder 0
\* (counted), jumps to the top and serves a higher request below the top.
C19_Witness ==
    /\ DiskReturned
    /\ alg = "CSCAN"
    /\ ~initialDirection
    /\ NumLower > 0
    /\ NumHigher > 0
    /\ CountIn(requests, 0) = 0
    /\ CountIn(requests, cylinders - 1) = 0
    /\ diskResult.seekDistance
           = start + ((cylinders - 1) - Visited[Len(Visited)])

\* C20: in the sequence returned by either function, the entries after the
\* first, without the boundary points C-SCAN inserts between its two sweeps,
\* are the requests that differ from start, each as often as it was queued;
\* start occurs once, at the front.
C20_ServesEachRequestOnce ==
    DiskReturned =>
        LET first == IF initialDirection THEN NumHigher ELSE NumLower
            extra == Len(Visited) - 1 - NumHigher - NumLower
            served == SubSeq(Visited, 2, 1 + first)
                          \o SubSeq(Visited, 2 + first + extra, Len(Visited))
        IN  /\ extra >= 0
            /\ alg = "LOOK" => extra = 0
            /\ \A v \in Cylinders :
                   CountIn(served, v) =
                       IF v = start THEN 0 ELSE CountIn(requests, v)
            /\ Visited[1] = start
            /\ CountIn(Visited, start) = 1

\* A wrapping C-SCAN run over a queue with a request at start and the same
\* request queued twice elsewhere.
C20_Witness ==
    /\ DiskReturned
    /\ alg = "CSCAN"
    /\ Wraps
    /\ CountIn(requests, start) = 1
    /\ \E v \in Cylinders : v # start /\ CountIn(requests, v) = 2
                               /\ CountIn(Visited, v) >= 2
    /\ Len(requests) = MaxRequests
    /\ Len(Visited) = Len(requests) + 2

\* The cylinder the first sweep of C-SCAN runs towards.
SweepBoundary == IF initialDirection THEN cylinders - 1 ELSE 0

\* Where the head stands when the first sweep ends.
SweepEnd == Visited[1 + (IF initialDirection THEN NumHigher ELSE NumLower)]

\* The number of entries of the returned sequence beyond start and the
\* requests that differ from start.
ExtraPoints == Len(Visited) - 1 - (NumHigher + NumLower)

\* C21: simulateLOOK returns 1 + (number of requests different from start)
\* entries.  simulateCSCAN returns k more, where k = 0 when no request lies on
\* the side opposite to the initial direction, and otherwise k = 2, or k = 1
\* when the head already stands on the boundary cylinder at the end of the
\* first sweep.
C21_SequenceLength ==
    DiskReturned =>
        /\ alg = "LOOK" => ExtraPoints = 0
        /\ alg = "CSCAN" =>
               ExtraPoints = (IF ~Wraps THEN 0
                              ELSE IF SweepEnd = SweepBoundary THEN 1 ELSE 2)
        /\ ExtraPoints <= 2

\* A downward C-SCAN run that serves a request at cylinder 0 and then wraps:
\* only the jump target is inserted.
C21_Witness ==
    /\ DiskReturned
    /\ alg = "CSCAN"
    /\ ~initialDirection
    /\ NumLower > 0
    /\ NumHigher > 0
    /\ SweepEnd = 0
    /\ ExtraPoints = 1

\* The call is made on the workload of the concrete scenarios, direction up.
IsScenario2Up ==
    /\ cylinders = Scenario2.cylinders
    /\ start = Scenario2.start
    /\ requests = Scenario2.requests
    /\ initialDirection

\* C22: simulateLOOK(200, 50, [82,170,43,140,24,16,190], up) returns the
\* sequence [50,82,140,170,190,43,24,16] and the seek distance 314, the sum of
\* the absolute differences of its 7 moves.
C22_Scenario2LOOK ==
    (DiskReturned /\ alg = "LOOK" /\ IsScenario2Up) =>
        /\ diskResult.sequence = <<50, 82, 140, 170, 190, 43, 24, 16>>
        /\ diskResult.seekDistance = 314
        /\ diskResult.seekDistance = SumOfMoves(diskResult.sequence)

\* simulateLOOK has returned from the scenario's call.
C22_Witness ==
    /\ DiskReturned
    /\ alg = "LOOK"
    /\ IsScenario2Up
    /\ Len(diskResult.sequence) = 8

\* C23: simulateCSCAN(200, 50, [82,170,43,140,24,16,190], up) returns
\* [50,82,140,170,190,199,0,16,24,43]: the boundary 199 immediately followed
\* by 0 comes before 16, 24, 43, and the move from 199 to 0 adds nothing to
\* the seek distance, which is 192.
C23_Scenario3CSCAN ==
    (DiskReturned /\ alg = "CSCAN" /\ IsScenario2Up) =>
        /\ diskResult.sequence = <<50, 82, 140, 170, 190, 199, 0, 16, 24, 43>>
        /\ diskResult.seekDistance = 192
        /\ diskResult.seekDistance
               = SumOfMoves(SubSeq(diskResult.sequence, 1, 6))
                     + SumOfMoves(SubSeq(diskResult.sequence, 7, 10))

\* simulateCSCAN has returned from the scenario's call, with the wrap in it.
C23_Witness ==
    /\ DiskReturned
    /\ alg = "CSCAN"
    /\ IsScenario2Up
    /\ \E k \in 1 .. (Len(diskResult.sequence) - 1) :
           diskResult.sequence[k] = 199 /\ diskResult.sequence[k + 1] = 0

\* ------------------------------------------------------ validator statements
MemoryValidated == alg = "validateMemoryInput" /\ pc = "done"

FramesMessage == <<"Number of frames must be a positive integer">>

RequiredMessage == <<"Reference string is required">>

OnlyNumbersMessage ==
    <<"Reference string must contain only numbers separated by spaces">>

NonNegativeMessage == <<"Reference string must contain non-negative integers">>

\* C24: whenever validateMemoryInput returns valid = true, the returned
\* frameCount is a positive integer and the returned refArray is a non-empty
\* sequence of non-negative integers.
C24_ValidMemoryWorkload ==
    (MemoryValidated /\ validation.valid) =>
        /\ IsInteger(validation.frameCount)
        /\ validation.frameCount.mant > 0
        /\ Len(validation.refArray) >= 1
        /\ \A k \in 1 .. Len(validation.refArray) :
               /\ IsInteger(validation.refArray[k])
               /\ validation.refArray[k].mant >= 0

\* The text is a positive integer written in decimal: digits only (a leading
\* + and surrounding white space apart), not all of them 0.
DenotesPositiveInteger(text) ==
    LET s == Trim(text)
        body == IF s # << >> /\ Head(s) = "+" THEN Tail(s) ELSE s
    IN  /\ body # << >>
        /\ \A k \in 1 .. Len(body) : IsDigit(body[k])
        /\ \E k \in 1 .. Len(body) : body[k] # "0"

\* C25: whenever the frames text does not denote a positive integer,
\* validateMemoryInput returns valid = false with the message 'Number of
\* frames must be a positive integer' and neither frameCount nor refArray,
\* whatever the reference string is.
C25_RejectsBadFrames ==
    (MemoryValidated /\ ~DenotesPositiveInteger(framesText)) =>
        /\ ~validation.valid
        /\ validation.message = FramesMessage
        /\ DOMAIN validation = {"valid", "message"}

\* The tokens of a text: its maximal runs of characters other than white space.
TokenSet(s) ==
    {SubSeq(s, a, b) : <<a, b>> \in
        {p \in (1 .. Len(s)) \X (1 .. Len(s)) :
            /\ p[1] <= p[2]
            /\ \A k \in p[1] .. p[2] : ~IsSpace(s[k])
            /\ p[1] = 1 \/ IsSpace(s[p[1] - 1])
            /\ p[2] = Len(s) \/ IsSpace(s[p[2] + 1])}}

\* The token is a number: digits with at most one decimal point and at least
\* one digit, after an optional sign.
IsNumberToken(t) ==
    LET body == IF Head(t) \in {"+", "-"} THEN Tail(t) ELSE t
    IN  /\ \A k \in 1 .. Len(body) : IsDigit(body[k]) \/ body[k] = "."
        /\ Cardinality({k \in 1 .. Len(body) : body[k] = "."}) <= 1
        /\ \E k \in 1 .. Len(body) : IsDigit(body[k])

\* The token is a number below zero.
IsNegativeToken(t) ==
    /\ IsNumberToken(t)
    /\ Head(t) = "-"
    /\ \E k \in 1 .. Len(t) : IsDigit(t[k]) /\ t[k] # "0"

\* C26: with a valid frame count, an empty or white-space-only reference
\* string is rejected with 'Reference string is required'; otherwise a token
\* that is not a number gives the 'only numbers separated by spaces' message;
\* otherwise a negative value gives the 'non-negative integers' message.
C26_ReferenceMessages ==
    (MemoryValidated /\ DenotesPositiveInteger(framesText)) =>
        LET tokens == TokenSet(referenceString)
        IN  /\ tokens = {} =>
                   ~validation.valid /\ validation.message = RequiredMessage
            /\ (\E t \in tokens : ~IsNumberToken(t)) =>
                   ~validation.valid /\ validation.message = OnlyNumbersMessage
            /\ (/\ \A t \in tokens : IsNumberToken(t)
                /\ \E t \in tokens : IsNegativeToken(t)) =>
                   ~validation.valid /\ validation.message = NonNegativeMessage

\* A reference string with a negative value and a token that is not a number
\* has been rejected.
C26_Witness ==
    /\ MemoryValidated
    /\ DenotesPositiveInteger(framesText)
    /\ \E t \in TokenSet(referenceString) : IsNegativeToken(t)
    /\ \E t \in TokenSet(referenceString) : ~IsNumberToken(t)
    /\ validation.message = OnlyNumbersMessage

DiskValidated == alg = "validateDiskInput" /\ pc = "done"

\* The text is an integer written in decimal (an optional - and digits only,
\* surrounding white space apart), and the integer it denotes.
PlainInteger(text) ==
    LET s == Trim(text)
        body == IF s # << >> /\ Head(s) = "-" THEN Tail(s) ELSE s
    IN  body # << >> /\ \A k \in 1 .. Len(body) : IsDigit(body[k])

ValueOf(text) ==
    LET s == Trim(text)
    IN  IF Head(s) = "-" THEN -DigitsValue(Tail(s)) ELSE DigitsValue(s)

\* The text does not start with a number at all.
NoNumber(text) ==
    LET s == Trim(text)
        body == IF s # << >> /\ Head(s) \in {"+", "-"} THEN Tail(s) ELSE s
    IN  body = << >> \/ ~IsDigit(Head(body))

\* The pieces of a text between its commas, the empty ones included.
CommaPieces(s) ==
    {SubSeq(s, p[1], p[2]) : p \in
        {q \in (1 .. Len(s) + 1) \X (0 .. Len(s)) :
            /\ q[2] >= q[1] - 1
            /\ \A k \in q[1] .. q[2] : s[k] # ","
            /\ q[1] = 1 \/ s[q[1] - 1] = ","
            /\ q[2] = Len(s) \/ s[q[2] + 1] = ","}}

GoodCylinders == PlainInteger(totalCylinders) /\ ValueOf(totalCylinders) > 0

GoodHead ==
    /\ PlainInteger(headPosition)
    /\ ValueOf(headPosition) >= 0
    /\ ValueOf(headPosition) < ValueOf(totalCylinders)

\* Every piece of the queue is an integer and one of them is outside
\* 0 .. cylinders-1.
RequestOutOfRange ==
    /\ Trim(requestQueue) # << >>
    /\ \A r \in CommaPieces(requestQueue) : PlainInteger(r)
    /\ \E r \in CommaPieces(requestQueue) :
           ValueOf(r) < 0 \/ ValueOf(r) >= ValueOf(totalCylinders)

HeadRangeMessage ==
    <<"Head position must be less than total cylinders (0-",
      Num(ValueOf(totalCylinders) - 1, 0), ")">>

QueueRangeMessage ==
    <<"Request queue must contain integers between 0 and ",
      Num(ValueOf(totalCylinders) - 1, 0)>>

\* C27: validateDiskInput returns valid = true only with cylinders a positive
\* integer, 0 <= start < cylinders and a non-empty request array within
\* 0 .. cylinders-1; a head position >= cylinders and a request outside the
\* range are rejected with a message naming the range 0 to cylinders-1; the
\* checks come in the order cylinders, head position, request queue.
C27_DiskValidation ==
    DiskValidated =>
        /\ validation.valid =>
               /\ IsInteger(validation.cylinders)
               /\ validation.cylinders.mant > 0
               /\ IsInteger(validation.start)
               /\ validation.start.mant >= 0
               /\ validation.start.mant < validation.cylinders.mant
               /\ Len(validation.requestArray) >= 1
               /\ \A k \in 1 .. Len(validation.requestArray) :
                      /\ IsInteger(validation.requestArray[k])
                      /\ validation.requestArray[k].mant >= 0
                      /\ validation.requestArray[k].mant
                             <= validation.cylinders.mant - 1
        /\ (NoNumber(totalCylinders)
              \/ (PlainInteger(totalCylinders) /\ ValueOf(totalCylinders) <= 0)) =>
               validation = Reject(<<"Total cylinders must be a positive integer">>)
        /\ (GoodCylinders
              /\ (NoNumber(headPosition)
                    \/ (PlainInteger(headPosition) /\ ValueOf(headPosition) < 0))) =>
               validation = Reject(<<"Head position must be a non-negative integer">>)
        /\ (GoodCylinders /\ PlainInteger(headPosition)
              /\ ValueOf(headPosition) >= ValueOf(totalCylinders)) =>
               validation = Reject(HeadRangeMessage)
        /\ (GoodCylinders /\ GoodHead /\ RequestOutOfRange) =>
               validation = Reject(QueueRangeMessage)

\* A queue whose only fault is a request equal to the cylinder count has been
\* rejected with the range in the message.
C27_Witness ==
    /\ DiskValidated
    /\ GoodCylinders
    /\ GoodHead
    /\ RequestOutOfRange
    /\ \A r \in CommaPieces(requestQueue) :
           ValueOf(r) >= 0 /\ ValueOf(r) <= ValueOf(totalCylinders)
    /\ validation.message = QueueRangeMessage

\* The decimal digits of a natural number.
RECURSIVE DigitsOf(_)
DigitsOf(n) ==
    IF n < 10 THEN <<DigitChars[n + 1]>>
    ELSE DigitsOf(n \div 10) \o <<DigitChars[(n % 10) + 1]>>

\* k zeros.
Zeros(k) == [j \in 1 .. k |-> "0"]

\* A number that is not NaN written in decimal: 3, -5, 1.5, 0.01.
Written(x) ==
    LET magnitude == IF x.mant < 0 THEN -x.mant ELSE x.mant
        ds == DigitsOf(magnitude)
        padded == IF Len(ds) <= x.frac THEN Zeros(x.frac + 1 - Len(ds)) \o ds
                  ELSE ds
        whole == SubSeq(padded, 1, Len(padded) - x.frac)
        fraction == SubSeq(padded, Len(padded) - x.frac + 1, Len(padded))
    IN  (IF x.mant < 0 THEN <<"-">> ELSE << >>)
            \o whole \o (IF x.frac > 0 THEN <<".">> \o fraction ELSE << >>)

\* The numbers of arr written in decimal and joined by the separator.
RECURSIVE Joined(_, _)
Joined(arr, separator) ==
    IF arr = << >> THEN << >>
    ELSE IF Len(arr) = 1 THEN Written(arr[1])
    ELSE Written(arr[1]) \o <<separator>> \o Joined(Tail(arr), separator)

\* C28: when a validator accepts its input, writing the returned values back
\* to text (numbers in decimal, references joined by spaces, requests joined
\* by commas) and validating again is accepted too and returns the same
\* values.
C28_RoundTrip ==
    /\ (MemoryValidated /\ validation.valid) =>
           ValidateMemoryInput(Written(validation.frameCount),
                               Joined(validation.refArray, " ")) = validation
    /\ (DiskValidated /\ validation.valid) =>
           ValidateDiskInput(Written(validation.cylinders),
                             Written(validation.start),
                             Joined(validation.requestArray, ",")) = validation

\* An accepted reference string with a number of two different digits, in a
\* call whose texts are not the ones written back.
C28_Witness ==
    /\ MemoryValidated
    /\ validation.valid
    /\ \E k \in 1 .. Len(validation.refArray) : validation.refArray[k] = Num(12, 0)
    /\ framesText # Written(validation.frameCount)
    /\ referenceString # Joined(validation.refArray, " ")

\* ---------------------------------------------------------- tab statements
\* The comparison entry that a stored result gives rise to.
EntryOf(res, cyls) ==
    IF tab = "memory" THEN <<[faults |-> res.faults, hits |-> res.hits]>>
    ELSE <<[seekDistance |-> res.seekDistance, cylinders |-> cyls]>>

\* C29: a handleRun whose validation fails invokes no simulation function,
\* sets error to the validator's message and leaves the stored result, the
\* showResults flag and the comparison data as they were; one whose
\* validation succeeds clears the error and replaces exactly the selected
\* algorithm's entry of the comparison data.
C29_FailedRunChangesNothing ==
    [][(MemoryHandleRun \/ DiskHandleRun) =>
           IF ~validation'.valid
           THEN /\ simCalls' = << >>
                /\ error' = validation'.message
                /\ error' # << >>
                /\ tabResult' = tabResult
                /\ showResults' = showResults
                /\ comparisonData' = comparisonData
           ELSE /\ error' = << >>
                /\ Len(simCalls') = 1
                /\ \A key \in DOMAIN comparisonData :
                       key # algorithm =>
                           comparisonData'[key] = comparisonData[key]
                /\ comparisonData'[algorithm]
                       = EntryOf(tabResult'[1], cylinderCount')]_vars

\* A run has failed while an earlier result is stored and shown and every
\* comparison entry of the memory tab is set.
C29_Witness ==
    /\ tab = "memory"
    /\ validation # NoValidation
    /\ ~validation.valid
    /\ validation = ValidateMemoryInput(framesText, referenceString)
    /\ error = validation.message
    /\ simCalls = << >>
    /\ tabResult # << >>
    /\ showResults
    /\ comparisonData.lru # << >>
    /\ comparisonData.arb # << >>
    /\ comparisonData.look # << >>

\* ------------------------------------------------- statements about calls
\* C30: a call of simulateLRU, simulateARB, simulateLOOK or simulateCSCAN
\* returns what every earlier call of the same function with the same
\* arguments returned (trace and metrics), whatever calls were made in
\* between.
C30_SameArgumentsSameResult ==
    pc = "done" =>
        \A k \in 1 .. Len(simCalls) :
            (/\ simCalls[k].function = ReturnedCall.function
             /\ simCalls[k].arguments = ReturnedCall.arguments) =>
                simCalls[k].returned = ReturnedCall.returned

\* simulateARB has returned from a call that evicted a page, after an earlier
\* call with the same arguments and a call of another function in between.
C30_Witness ==
    /\ pc = "done"
    /\ alg = "ARB"
    /\ result.faults > frameCount
    /\ Len(simCalls) = 2
    /\ simCalls[1].function = "ARB"
    /\ simCalls[1].arguments = <<frameCount, refString>>
    /\ simCalls[2].function # "ARB"

\* ------------------------------------------- statements about the trace
\* Each recorded step starts from what the step before it ended with.
SnapshotChain ==
    /\ Len(Steps) >= 1 =>
           /\ DOMAIN Steps[1].frames = Indices(frameCount)
           /\ \A f \in Indices(frameCount) : Steps[1].frames[f] = EMPTY
    /\ \A k \in 1 .. (Len(Steps) - 1) :
           /\ Steps[k + 1].frames = Steps[k].framesAfter
           /\ alg = "ARB" =>
                  /\ Steps[k + 1].refBits = Steps[k].refBitsAfter
                  /\ Steps[k + 1].pointerPosition = Steps[k].pointerPositionAfter

\* What has been recorded stays as it was recorded.
RecordedStepsKept ==
    \A k \in 1 .. Len(Steps) : Len(Steps') >= k /\ Steps'[k] = Steps[k]

\* C31: in the trace of both memory functions steps[0].frames is all empty,
\* each step's frames (and refBits and pointerPosition for simulateARB) equal
\* the framesAfter (refBitsAfter, pointerPositionAfter) of the step before,
\* and processing a later reference never changes a step already recorded.
C31_SnapshotChain == [](SnapshotChain) /\ [][RecordedStepsKept]_vars

\* A returned trace whose frame table changed after the first step was
\* recorded, and changed again later.
C31_Witness ==
    /\ pc = "done"
    /\ Len(Steps) >= 3
    /\ Steps[1].framesAfter # Steps[2].framesAfter
    /\ Steps[2].framesAfter # Steps[Len(Steps)].framesAfter
    /\ alg = "ARB" => Steps[1].pointerPositionAfter # Steps[Len(Steps)].pointerPosition

\* The replaced frame of a step that has one.
Replaced(s) == s.replacedFrame[1]

\* C32: in both memory functions replacedFrame is defined exactly on fault
\* steps; on a fault frames and framesAfter differ at most in the slot
\* replacedFrame, which holds the referenced page in framesAfter; on a hit
\* framesAfter equals frames.
C32_FrameEffect ==
    \A k \in 1 .. Len(Steps) :
        LET s == Steps[k]
        IN  /\ (s.replacedFrame # << >>) <=> s.isFault
            /\ s.isFault =>
                   /\ Replaced(s) \in Indices(frameCount)
                   /\ s.framesAfter[Replaced(s)] = s.reference
                   /\ \A f \in Indices(frameCount) \ {Replaced(s)} :
                          s.framesAfter[f] = s.frames[f]
            /\ ~s.isFault => s.framesAfter = s.frames

\* A returned trace with a hit, a fault that filled an empty frame and a
\* fault that replaced a page, in a table of more than one frame.
C32_Witness ==
    /\ pc = "done"
    /\ frameCount > 1
    /\ \E k \in 1 .. Len(Steps) : ~Steps[k].isFault
    /\ \E k \in 1 .. Len(Steps) :
           Steps[k].isFault /\ Steps[k].frames[Replaced(Steps[k])] = EMPTY
    /\ \E k \in 1 .. Len(Steps) :
           Steps[k].isFault /\ Steps[k].frames[Replaced(Steps[k])] # EMPTY

\* The frame indices holding a page in the frame table fr.
Occupied(fr) == {f \in DOMAIN fr : fr[f] # EMPTY}

\* order lists exactly the occupied frames of fr, each once.
ListsOccupied(order, fr) ==
    /\ \A f \in Occupied(fr) :
           Cardinality({j \in 1 .. Len(order) : order[j] = f}) = 1
    /\ \A j \in 1 .. Len(order) : order[j] \in Occupied(fr)

\* C33: after every simulateLRU step the recency order contains the index of
\* every occupied frame exactly once and the index of no empty frame; so its
\* length is the number of occupied frames and, when no frame is empty, its
\* first element is a frame index in [0, frameCount-1].
C33_OrderListsOccupied ==
    alg = "LRU" =>
        /\ ListsOccupied(orderOfUse, frames)
        /\ Len(orderOfUse) = Cardinality(Occupied(frames))
        /\ ~Includes(frames, EMPTY) =>
               Len(orderOfUse) >= 1 /\ orderOfUse[1] \in 0 .. (frameCount - 1)
        /\ \A k \in 1 .. Len(Steps) :
               /\ ListsOccupied(Steps[k].orderOfUse, Steps[k].framesAfter)
               /\ Len(Steps[k].orderOfUse) = Cardinality(Occupied(Steps[k].framesAfter))

\* A simulateLRU run that filled more than one frame, had a hit and then
\* replaced a page.
C33_Witness ==
    /\ alg = "LRU"
    /\ pc = "done"
    /\ frameCount > 1
    /\ ~Includes(frames, EMPTY)
    /\ \E k \in 1 .. Len(Steps) : ~Steps[k].isFault
    /\ LastStep.isFault
    /\ LastStep.frames[Replaced(LastStep)] # EMPTY

\* The frames of fr that hold page.
FramesHolding(fr, page) == {f \in DOMAIN fr : fr[f] = page}

\* No page is in two frames of fr.
NoPageTwice(fr) ==
    \A f \in Occupied(fr) : FramesHolding(fr, fr[f]) = {f}

\* The frame table after each step: no page twice, the referenced page in
\* exactly one frame; a hit was found in a frame that holds a page.
ResidencyKept ==
    /\ NoPageTwice(frames)
    /\ \A k \in 1 .. Len(Steps) :
           LET s == Steps[k]
           IN  /\ NoPageTwice(s.framesAfter)
               /\ Cardinality(FramesHolding(s.framesAfter, s.reference)) = 1
               /\ ~s.isFault =>
                      /\ IndexOf(s.frames, s.reference) # NOT_FOUND
                      /\ s.frames[IndexOf(s.frames, s.reference)] # EMPTY
               /\ s.isFault => IndexOf(s.frames, s.reference) = NOT_FOUND

\* A frame that holds a page holds a page afterwards.
OccupiedStaysOccupied ==
    \A f \in Indices(frameCount) : frames[f] # EMPTY => frames'[f] # EMPTY

\* C35: for pages >= 0, after every step of simulateLRU and simulateARB no
\* page occupies two frames, the referenced page is resident in exactly one
\* frame of framesAfter, the lookup of the referenced page never matches an
\* empty slot, and no occupied frame becomes empty again.
C35_Residency == [](ResidencyKept) /\ [][OccupiedStaysOccupied]_vars

\* A returned run with a hit and with a page that was replaced and loaded
\* again by a later reference.
C35_Witness ==
    /\ pc = "done"
    /\ \E k \in 1 .. Len(Steps) : ~Steps[k].isFault
    /\ \E k \in 1 .. Len(Steps) : \E m \in (k + 1) .. Len(Steps) :
           /\ Steps[k].isFault
           /\ Steps[k].frames[Replaced(Steps[k])] = Steps[m].reference
           /\ Steps[m].isFault

\* Step k starts before any page was evicted.
BeforeFirstEviction(k) == \A m \in 1 .. (k - 1) : ~IsSweepStep(Steps[m])

\* The first fault with all frames full starts with the hand on frame 0 and
\* every bit 1, is flagged, and evicts frame 0, which holds the page loaded
\* first; the hand is always on a frame.
FirstEviction ==
    /\ pointer \in 0 .. (frameCount - 1)
    /\ \A k \in 1 .. Len(Steps) :
           LET st == Steps[k]
           IN  /\ st.pointerPosition \in 0 .. (frameCount - 1)
               /\ st.pointerPositionAfter \in 0 .. (frameCount - 1)
               /\ (IsSweepStep(st) /\ BeforeFirstEviction(k)) =>
                      /\ st.pointerPosition = 0
                      /\ \A f \in Indices(frameCount) : st.refBits[f] = 1
                      /\ st.resetBits
                      /\ st.replacedFrame = <<0>>
                      /\ st.frames[0] = Steps[1].reference

\* As stated in C36: no reference bit is 0 before the first eviction.
C36_NoZeroBitBeforeEviction ==
    alg = "ARB" =>
        /\ FirstEviction
        /\ \A k \in 1 .. Len(Steps) :
               BeforeFirstEviction(k) =>
                   \A f \in Indices(frameCount) : Steps[k].refBits[f] # 0

\* C36: in every simulateARB run the first fault with all frames full starts
\* with the pointer at frame 0 and every reference bit 1, is flagged resetBits
\* and evicts frame 0 (the page loaded first); the pointer is always in
\* [0, frameCount-1]; and before the first eviction no reference bit of an
\* occupied frame is 0 (the bit of a frame that is still empty is 0).
C36_FirstEviction ==
    alg = "ARB" =>
        /\ FirstEviction
        /\ \A k \in 1 .. Len(Steps) :
               BeforeFirstEviction(k) =>
                   \A f \in Indices(frameCount) :
                       Steps[k].refBits[f] = (IF Steps[k].frames[f] = EMPTY THEN 0 ELSE 1)

\* A returned simulateARB run with more than one frame whose first eviction
\* came after a hit, and that evicted again later.
C36_Witness ==
    /\ alg = "ARB"
    /\ pc = "done"
    /\ frameCount > 1
    /\ \E k \in 1 .. Len(Steps) :
           /\ IsSweepStep(Steps[k])
           /\ BeforeFirstEviction(k)
           /\ \E m \in 1 .. (k - 1) : ~Steps[m].isFault
           /\ \E m \in (k + 1) .. Len(Steps) : IsSweepStep(Steps[m])

\* s runs in the direction up (TRUE: never down) or down (FALSE: never up).
Monotonic(s, up) == IF up THEN IsNonDecreasing(s) ELSE IsNonIncreasing(s)

\* The positions of the sequence where the head moves against the direction up.
MovesAgainst(s, up) ==
    {k \in 1 .. (Len(s) - 1) : IF up THEN s[k] > s[k + 1] ELSE s[k] < s[k + 1]}

\* C34: the head never reverses within a sweep.  A sequence of simulateLOOK
\* is one monotonic run in the initial direction followed by at most one
\* monotonic run in the opposite direction; a sequence of simulateCSCAN is
\* monotonic in the initial direction except for the single jump from one
\* boundary to the other.
C34_Elevator ==
    DiskReturned =>
        /\ alg = "LOOK" =>
               \E j \in 1 .. Len(Visited) :
                   /\ Monotonic(SubSeq(Visited, 1, j), initialDirection)
                   /\ Monotonic(SubSeq(Visited, j, Len(Visited)), ~initialDirection)
        /\ alg = "CSCAN" =>
               /\ Cardinality(MovesAgainst(Visited, initialDirection)) <= 1
               /\ \A k \in MovesAgainst(Visited, initialDirection) :
                      /\ Visited[k] = SweepBoundary
                      /\ Visited[k + 1] = (cylinders - 1) - SweepBoundary

\* A run with duplicates on both sides of the start cylinder, queued in an
\* order that is not the order of service.
C34_Witness ==
    /\ DiskReturned
    /\ Len(requests) = MaxRequests
    /\ NumHigher = 2
    /\ NumLower = 2
    /\ \E k \in 2 .. (Len(Visited) - 1) : Visited[k] = Visited[k + 1]
    /\ requests[1] > requests[2]
    /\ requests[3] < requests[4]

\* What simulateLOOK returns for the arguments of the call.
LOOKResult == SimulateLOOK(cylinders, start, requests, initialDirection)

\* C38: when no request lies on the side opposite to the initial direction,
\* simulateCSCAN inserts no boundary or wrap point and returns the sequence
\* and the seekDistance that simulateLOOK returns for the same arguments.
C38_CSCANAsLOOK ==
    (DiskReturned /\ alg = "CSCAN" /\ ~Wraps) =>
        /\ ExtraPoints = 0
        /\ diskResult.sequence = LOOKResult.sequence
        /\ diskResult.seekDistance = LOOKResult.seekDistance

\* A simulateCSCAN call with several requests, all on the side of the initial
\* direction and none at the boundary ahead, that moved the head.
C38_Witness ==
    /\ DiskReturned
    /\ alg = "CSCAN"
    /\ ~Wraps
    /\ (IF initialDirection THEN NumHigher ELSE NumLower) >= 2
    /\ CountIn(requests, SweepBoundary) = 0
    /\ diskResult.seekDistance > 1

\* The pages in the frame table fr.
Resident(fr) == {fr[f] : f \in Occupied(fr)}

\* simulateLRU with one frame more, after the references processed so far.
WithOneFrameMore ==
    LRULoop([frames |-> InitFrames(frameCount + 1), orderOfUse |-> << >>,
             result |-> InitResult],
            SubSeq(refString, 1, i))

\* C37: simulateLRU has the stack property: after each step the pages
\* resident with n frames are resident with n+1 frames, so the fault count
\* with n+1 frames is never greater than with n frames.
C37_StackProperty ==
    alg = "LRU" =>
        /\ Resident(frames) \subseteq Resident(WithOneFrameMore.frames)
        /\ WithOneFrameMore.result.faults <= result.faults
        /\ pc = "done" =>
               SimulateLRU(frameCount + 1, refString).faults <= result.faults

\* A returned simulateLRU run with more than one frame that evicted pages,
\* and that faults more often than the run with one frame more.
C37_Witness ==
    /\ alg = "LRU"
    /\ pc = "done"
    /\ frameCount > 1
    /\ \E k \in 1 .. Len(Steps) : IsSweepStep(Steps[k])
    /\ SimulateLRU(frameCount + 1, refString).faults < result.faults
    /\ Resident(frames) # Resident(WithOneFrameMore.frames)

\* ------------------------------------------------ statements about the replay
\* C39: in DiskVisualization, for LOOK and C-SCAN results and every
\* animationStep from 1 to sequence.length, the displayed seek distance so
\* far never exceeds result.seekDistance, and at animationStep =
\* sequence.length it equals result.seekDistance.
C39_SeekDistanceSoFar ==
    (view = "disk" /\ animationStep \in 1 .. SequenceLength) =>
        /\ SeekDistanceSoFar(diskResult.sequence, animationStep)
               <= diskResult.seekDistance
        /\ animationStep = SequenceLength =>
               SeekDistanceSoFar(diskResult.sequence, animationStep)
                   = diskResult.seekDistance

\* C40: under every interleaving of Play, Pause, Reset, Step forward, Step
\* back and slider change with the animation callbacks, animationStep stays
\* in [1, sequence.length] and currentStep in [0, steps.length-1].
C40_ReplayIndexInBounds ==
    /\ view = "disk" => animationStep \in 1 .. SequenceLength
    /\ view = "memory" => currentStep \in 0 .. (StepsLength - 1)

====
